---- MODULE Spec2Model ----
(***************************************************************************)
(* A model of the orchestration core of flux (crates/core): the executor   *)
(* cache, the auction client's write path, the intent executor's           *)
(* pipelines, and the orchestrator's block loop fed by the block producer. *)
(*                                                                         *)
(* Specifications:                                                         *)
(*   SpecCache   any sequence of ExecutorCache::update calls               *)
(*   SpecClient  any sequence of AuctionClient operations                  *)
(*   SpecExec    any sequence of IntentExecutor::execute calls             *)
(*   Spec        BlockProducer::into_stream followed by Orchestrator::run  *)
(*   SpecValidate  one call of a validator on any state and argument       *)
(*   SpecTicks   compute_prev_tick_price on any tick list and price        *)
(*   SpecHints   compute_exit_hints on any checkpoint list and bid         *)
(*   SpecLife    the run of a strategy that submits, exits and claims one  *)
(*               bid                                                       *)
(*   SpecReads   execute calls on one bid, keeping what each pipeline read *)
(*   SpecWalks   the tick walk and the exit-hint walk, counting reads       *)
(*   SpecTwins   the orchestrator and executor pipelines side by side       *)
(*                                                                         *)
(* The chain is the environment: every RPC read and every transaction      *)
(* receipt is an input drawn from a small set when the code asks for it.   *)
(***************************************************************************)
EXTENDS Integers, Sequences, FiniteSets, TLC

VARIABLES
    config,          \* AuctionClient.config (fetched once at construction)
    owner,           \* AuctionClient.owner
    tracked_bids,    \* AuctionClient.tracked_bids (ids, in Vec order)
    cache,           \* ExecutorCache / OrchestratorCache
    bids_submitted,  \* Orchestrator.bids_submitted
    bids_exited,     \* Orchestrator.bids_exited
    tokens_claimed,  \* Orchestrator.tokens_claimed
    pc,              \* position of the running future
    stream,          \* which stream into_stream built, and how many items it gave
    block,           \* the block handle_block is working on
    intents,         \* the intents of that block not yet executed
    ret,             \* what run / into_stream returned
    last,            \* observation: the last call, its steps and its outcome
    hist             \* observation: what happened so far (constructor list and
                     \* confirmed submits; or runs, blocks handled, acted)

vars == << config, owner, tracked_bids, cache, bids_submitted, bids_exited,
           tokens_claimed, pc, stream, block, intents, ret, last, hist >>

----------------------------------------------------------------------------
(* Bounds of the model *)

StartBlock == 1
EndBlock == 2
ClaimBlock == 3
MaxBlock == 3
FloorPrice == 2
TickSpacing == 2
MaxBidId == 2
MaxTracked == 2
MaxItems == 2
MaxIntents == 2
MaxCalls == 2
MaxRuns == 2

(* Program constants *)
MpsFull == 10000000

----------------------------------------------------------------------------
(* Option<T> is a sequence of length at most one. *)
None == << >>
Some(x) == << x >>
is_some(o) == Len(o) = 1
is_none(o) == Len(o) = 0

(* Result<T, Error> *)
Ok(v) == [ok |-> TRUE, val |-> v]
Err(kind, e) == [ok |-> FALSE, val |-> [kind |-> kind, err |-> e]]

TokenDepositStatus == {"Unknown", "NotReceived", "Received"}
GraduationStatus == {"NotGraduated", "Graduated"}

BlockNumbers == 0 .. MaxBlock
BidIds == 1 .. MaxBidId
LowPrice == FloorPrice + TickSpacing
HighPrice == FloorPrice + 2 * TickSpacing
MaxBidPrice == HighPrice
ClearingPrices == {LowPrice, HighPrice}
Checkpoints == [clearing_price : ClearingPrices, cumulative_mps : {0, MpsFull}]

Configs ==
    { [start_block |-> StartBlock, end_block |-> EndBlock, claim_block |-> c,
       floor_price |-> FloorPrice, tick_spacing |-> TickSpacing,
       max_bid_price |-> MaxBidPrice, native |-> FALSE] : c \in {ClaimBlock} }

----------------------------------------------------------------------------
(* ExecutorCache (executor/cache.rs) *)

ExecutorCache_new ==
    [tokens_received |-> "Unknown", graduated |-> "NotGraduated",
     final_checkpoint |-> None]

(* faulty variant: every observation overwrites the cached value *)
update_overwrite(c, tokens, graduation, checkpoint, past_end_block) ==
    [tokens_received |-> IF is_some(tokens) THEN tokens[1] ELSE c.tokens_received,
     graduated |-> IF is_some(graduation) THEN graduation[1] ELSE c.graduated,
     final_checkpoint |-> IF past_end_block /\ is_some(checkpoint)
                          THEN checkpoint ELSE c.final_checkpoint]

update(c, tokens, graduation, checkpoint, past_end_block) ==
    [tokens_received |->
        IF is_some(tokens) /\ tokens[1] = "Received"
        THEN tokens[1] ELSE c.tokens_received,
     graduated |->
        IF is_some(graduation) /\ graduation[1] = "Graduated"
        THEN graduation[1] ELSE c.graduated,
     final_checkpoint |->
        IF past_end_block /\ is_some(checkpoint) /\ is_none(c.final_checkpoint)
        THEN checkpoint ELSE c.final_checkpoint]

(* faulty variant: the cached token balance is not reused *)
needs_token_balance_always(c) == TRUE

needs_token_balance(c) == c.tokens_received # "Received"

needs_graduation(c) == c.graduated # "Graduated"

(* faulty variant: a cached final checkpoint is not reused *)
needs_checkpoint_always(c, past_end_block) == TRUE

needs_checkpoint(c, past_end_block) ==
    IF past_end_block THEN is_none(c.final_checkpoint) ELSE TRUE

----------------------------------------------------------------------------
(* Domain types (types/state.rs, types/bid.rs, types/config.rs) *)

ZeroAddress == "0x0"
AgentAddress == "agent"
OtherAddress == "other"

Phase(name, n) == [name |-> name, n |-> n]

(* faulty variant: past end_block the token status is not looked at *)
compute_phase_tokens_until_end(cfg, current, tokens_received) ==
    LET tokens_ready == tokens_received = "Received" IN
    IF current < cfg.start_block THEN Phase("PreStart", cfg.start_block - current)
    ELSE IF ~tokens_ready /\ current < cfg.end_block THEN Phase("PreTokens", 0)
    ELSE IF current < cfg.end_block THEN Phase("Active", cfg.end_block - current)
    ELSE IF current < cfg.claim_block THEN Phase("Ended", cfg.claim_block - current)
    ELSE Phase("Claimable", 0)

(* faulty variant: the tests against end_block and claim_block are swapped *)
compute_phase_claim_before_end(cfg, current, tokens_received) ==
    LET tokens_ready == tokens_received = "Received" IN
    IF current < cfg.start_block THEN Phase("PreStart", cfg.start_block - current)
    ELSE IF ~tokens_ready THEN Phase("PreTokens", 0)
    ELSE IF current < cfg.end_block THEN Phase("Active", cfg.end_block - current)
    ELSE IF current < cfg.claim_block THEN Phase("Claimable", 0)
    ELSE Phase("Ended", 1)

(* faulty variant: the end block still counts as Active *)
compute_phase_end_inclusive(cfg, current, tokens_received) ==
    LET tokens_ready == tokens_received = "Received" IN
    IF current < cfg.start_block THEN Phase("PreStart", cfg.start_block - current)
    ELSE IF ~tokens_ready THEN Phase("PreTokens", 0)
    ELSE IF current <= cfg.end_block THEN Phase("Active", cfg.end_block - current)
    ELSE IF current < cfg.claim_block THEN Phase("Ended", cfg.claim_block - current)
    ELSE Phase("Claimable", 0)

compute_phase(cfg, current, tokens_received) ==
    LET tokens_ready == tokens_received = "Received" IN
    IF current < cfg.start_block THEN Phase("PreStart", cfg.start_block - current)
    ELSE IF ~tokens_ready THEN Phase("PreTokens", 0)
    ELSE IF current < cfg.end_block THEN Phase("Active", cfg.end_block - current)
    ELSE IF current < cfg.claim_block THEN Phase("Ended", cfg.claim_block - current)
    ELSE Phase("Claimable", 0)

(* faulty variant: the phase is derived as if the tokens had been received *)
AuctionState_new_phase_from_blocks(blk, checkpoint, graduation, tokens_received, cfg) ==
    [current_block |-> blk,
     phase |-> compute_phase(cfg, blk, "Received"),
     checkpoint |-> checkpoint,
     graduation |-> graduation,
     tokens_received |-> tokens_received]

AuctionState_new(blk, checkpoint, graduation, tokens_received, cfg) ==
    [current_block |-> blk,
     phase |-> compute_phase(cfg, blk, tokens_received),
     checkpoint |-> checkpoint,
     graduation |-> graduation,
     tokens_received |-> tokens_received]

is_sold_out(checkpoint) == checkpoint.cumulative_mps >= MpsFull

is_aligned(price, tick_spacing) == price % tick_spacing = 0

is_valid_price(cfg, price) ==
    /\ price > cfg.floor_price
    /\ price <= cfg.max_bid_price
    /\ is_aligned(price, cfg.tick_spacing)

(* Faulty variant: a bid at the clearing price is classified in the money *)
status_atm_is_itm(bid, clearing_price) ==
    IF bid.max_price >= clearing_price THEN "ITM"
    ELSE IF bid.max_price = clearing_price THEN "ATM"
    ELSE "OTM"

status(bid, clearing_price) ==
    IF bid.max_price > clearing_price THEN "ITM"
    ELSE IF bid.max_price = clearing_price THEN "ATM"
    ELSE "OTM"

----------------------------------------------------------------------------
(* Validation rules (validation.rs): "Ok" or the ValidationError returned *)

(* faulty variant: the clearing price is compared before the sold-out test *)
validate_submit_bid_price_before_sold_out(input, state, cfg) ==
    IF state.current_block < cfg.start_block THEN "AuctionNotStarted"
    ELSE IF state.current_block >= cfg.end_block THEN "AuctionIsOver"
    ELSE IF state.phase.name # "Active" THEN "AuctionNotActive"
    ELSE IF state.tokens_received # "Received" THEN "TokensNotReceived"
    ELSE IF input.amount = 0 THEN "AmountTooSmall"
    ELSE IF input.owner = ZeroAddress THEN "OwnerIsZeroAddress"
    ELSE IF ~is_valid_price(cfg, input.max_price) THEN "InvalidPrice"
    ELSE IF input.max_price <= state.checkpoint.clearing_price
         THEN "BidBelowClearingPrice"
    ELSE IF is_sold_out(state.checkpoint) THEN "AuctionSoldOut"
    ELSE "Ok"

validate_submit_bid(input, state, cfg) ==
    IF state.current_block < cfg.start_block THEN "AuctionNotStarted"
    ELSE IF state.current_block >= cfg.end_block THEN "AuctionIsOver"
    ELSE IF state.phase.name # "Active" THEN "AuctionNotActive"
    ELSE IF state.tokens_received # "Received" THEN "TokensNotReceived"
    ELSE IF input.amount = 0 THEN "AmountTooSmall"
    ELSE IF input.owner = ZeroAddress THEN "OwnerIsZeroAddress"
    ELSE IF ~is_valid_price(cfg, input.max_price) THEN "InvalidPrice"
    ELSE IF is_sold_out(state.checkpoint) THEN "AuctionSoldOut"
    ELSE IF input.max_price <= state.checkpoint.clearing_price
         THEN "BidBelowClearingPrice"
    ELSE "Ok"

(* faulty variant: a bid at the clearing price passes as if in the money *)
validate_exit_bid_accepts_atm(bid, state, cfg) ==
    IF state.current_block < cfg.end_block THEN "AuctionNotOver"
    ELSE IF is_some(bid.exited_block) THEN "BidAlreadyExited"
    ELSE IF /\ state.graduation = "Graduated"
            /\ status(bid, state.checkpoint.clearing_price) = "OTM"
         THEN "BidNotITM"
    ELSE "Ok"

validate_exit_bid(bid, state, cfg) ==
    IF state.current_block < cfg.end_block THEN "AuctionNotOver"
    ELSE IF is_some(bid.exited_block) THEN "BidAlreadyExited"
    ELSE IF /\ state.graduation = "Graduated"
            /\ status(bid, state.checkpoint.clearing_price) # "ITM"
         THEN "BidNotITM"
    ELSE "Ok"

(* faulty variant: the exited test comes after the match on
   (graduated, ended) *)
validate_exit_partially_filled_exited_last(bid, state, cfg) ==
    LET is_graduated == state.graduation = "Graduated"
        is_ended == state.current_block >= cfg.end_block
        st == status(bid, state.checkpoint.clearing_price)
    IN  IF is_graduated /\ ~is_ended /\ st # "OTM" THEN "BidNotOutbid"
        ELSE IF is_graduated /\ is_ended /\ st = "ITM" THEN "BidIsITM"
        ELSE IF ~is_graduated /\ is_ended THEN "UseExitBidForRefund"
        ELSE IF ~is_graduated THEN "CannotPartiallyExitBeforeGraduation"
        ELSE IF is_some(bid.exited_block) THEN "BidAlreadyExited"
        ELSE "Ok"

(* faulty variant: without graduation the answer does not depend on the
   auction having ended *)
validate_exit_partially_filled_no_refund_hint(bid, state, cfg) ==
    LET is_graduated == state.graduation = "Graduated"
        is_ended == state.current_block >= cfg.end_block
        st == status(bid, state.checkpoint.clearing_price)
    IN  IF is_some(bid.exited_block) THEN "BidAlreadyExited"
        ELSE IF is_graduated /\ ~is_ended
             THEN (IF st # "OTM" THEN "BidNotOutbid" ELSE "Ok")
        ELSE IF is_graduated /\ is_ended
             THEN (IF st = "ITM" THEN "BidIsITM" ELSE "Ok")
        ELSE "CannotPartiallyExitBeforeGraduation"

(* faulty variant: after the end a bid at the clearing price counts as in
   the money *)
validate_exit_partially_filled_atm_is_itm(bid, state, cfg) ==
    LET is_graduated == state.graduation = "Graduated"
        is_ended == state.current_block >= cfg.end_block
        st == status(bid, state.checkpoint.clearing_price)
    IN  IF is_some(bid.exited_block) THEN "BidAlreadyExited"
        ELSE IF is_graduated /\ ~is_ended
             THEN (IF st # "OTM" THEN "BidNotOutbid" ELSE "Ok")
        ELSE IF is_graduated /\ is_ended
             THEN (IF st # "OTM" THEN "BidIsITM" ELSE "Ok")
        ELSE IF ~is_graduated /\ is_ended THEN "UseExitBidForRefund"
        ELSE "CannotPartiallyExitBeforeGraduation"

(* faulty variant: before end_block a bid at the clearing price passes *)
validate_exit_partially_filled_atm_before_end(bid, state, cfg) ==
    LET is_graduated == state.graduation = "Graduated"
        is_ended == state.current_block >= cfg.end_block
        st == status(bid, state.checkpoint.clearing_price)
    IN  IF is_some(bid.exited_block) THEN "BidAlreadyExited"
        ELSE IF is_graduated /\ ~is_ended
             THEN (IF st = "ITM" THEN "BidNotOutbid" ELSE "Ok")
        ELSE IF is_graduated /\ is_ended
             THEN (IF st = "ITM" THEN "BidIsITM" ELSE "Ok")
        ELSE IF ~is_graduated /\ is_ended THEN "UseExitBidForRefund"
        ELSE "CannotPartiallyExitBeforeGraduation"

validate_exit_partially_filled(bid, state, cfg) ==
    LET is_graduated == state.graduation = "Graduated"
        is_ended == state.current_block >= cfg.end_block
        st == status(bid, state.checkpoint.clearing_price)
    IN  IF is_some(bid.exited_block) THEN "BidAlreadyExited"
        ELSE IF is_graduated /\ ~is_ended
             THEN (IF st # "OTM" THEN "BidNotOutbid" ELSE "Ok")
        ELSE IF is_graduated /\ is_ended
             THEN (IF st = "ITM" THEN "BidIsITM" ELSE "Ok")
        ELSE IF ~is_graduated /\ is_ended THEN "UseExitBidForRefund"
        ELSE "CannotPartiallyExitBeforeGraduation"

(* faulty variant: the owner is compared before the tokens are looked at *)
bid_check_owner_first(bid, expected_owner) ==
    IF is_none(bid.exited_block) THEN "BidNotExited"
    ELSE IF bid.owner # expected_owner THEN "OwnerMismatch"
    ELSE IF bid.tokens_filled = 0 THEN "NoTokensToClaim"
    ELSE "Ok"

bid_check(bid, expected_owner) ==
    IF is_none(bid.exited_block) THEN "BidNotExited"
    ELSE IF bid.tokens_filled = 0 THEN "NoTokensToClaim"
    ELSE IF bid.owner # expected_owner THEN "OwnerMismatch"
    ELSE "Ok"

RECURSIVE first_failing(_, _)
first_failing(bids, expected_owner) ==
    IF bids = << >> THEN "Ok"
    ELSE LET r == bid_check(Head(bids), expected_owner) IN
         IF r # "Ok" THEN r ELSE first_failing(Tail(bids), expected_owner)

validate_claim(bids, expected_owner, state, cfg) ==
    IF state.current_block < cfg.claim_block THEN "ClaimBlockNotReached"
    ELSE IF state.graduation # "Graduated" THEN "NotGraduated"
    ELSE first_failing(bids, expected_owner)

----------------------------------------------------------------------------
(* The chain's answers *)

BidPrices == {LowPrice, HighPrice}

(* what bids(id) decodes to: decode_bid maps exitedBlock == 0 to None *)
BidsOf(id) ==
    [id : {id}, owner : {AgentAddress, OtherAddress}, max_price : BidPrices,
     exited_block : {None, Some(EndBlock)}, tokens_filled : {0, 1}]

Event(ev, id, tokens_filled) == [ev |-> ev, id |-> id, tokens_filled |-> tokens_filled]

Events ==
    {Event("BidSubmitted", id, 0) : id \in BidIds}
        \cup {Event("BidExited", 1, 1), Event("TokensClaimed", 1, 1),
              Event("TokensClaimed", MaxBidId, 1)}

Logs == {<< >>} \cup {<<e>> : e \in Events} \cup {<<e, f>> : e \in Events, f \in Events}

(* what sending a transaction and awaiting its receipt can give *)
TxFailure(stage) == [stage |-> stage, status |-> FALSE, logs |-> << >>]

TxResponses ==
    {TxFailure("send_failed"), TxFailure("confirm_failed"), TxFailure("no_body")}
        \cup [stage : {"receipt"}, status : BOOLEAN, logs : Logs]

RECURSIVE find_event(_, _)
find_event(logs, ev) ==
    IF logs = << >> THEN None
    ELSE IF Head(logs).ev = ev THEN Some(Head(logs))
    ELSE find_event(Tail(logs), ev)

(* a TokensClaimed log whose indexed bidId is one of the claimed ids *)
is_claimed(log, bid_ids) ==
    /\ log.ev = "TokensClaimed"
    /\ \E i \in 1 .. Len(bid_ids) : bid_ids[i] = log.id

RECURSIVE sum_claimed(_, _)
sum_claimed(logs, bid_ids) ==
    IF logs = << >> THEN 0
    ELSE (IF is_claimed(Head(logs), bid_ids) THEN Head(logs).tokens_filled ELSE 0)
            + sum_claimed(Tail(logs), bid_ids)

----------------------------------------------------------------------------
(* AuctionClient write path (client.rs).  Each operation maps the client's
   tracked_bids and the chain's answer to the new tracked_bids and the
   Result. *)

Done(tb, result) == [tracked_bids |-> tb, result |-> result]

(* faulty variant: the bid is tracked before the receipt is examined *)
submit_bid_push_early(tb, params, resp) ==
    LET found == find_event(resp.logs, "BidSubmitted") IN
    IF resp.stage = "send_failed" THEN Done(tb, Err("Transaction", "Contract"))
    ELSE IF resp.stage = "confirm_failed"
         THEN Done(tb, Err("Transaction", "Pending"))
    ELSE IF resp.stage = "no_body"
         THEN Done(tb, Err("Transaction", "MissingReceipt"))
    ELSE IF is_none(found)
         THEN Done(tb, Err("Transaction", "MissingBidSubmittedEvent"))
    ELSE IF ~resp.status
         THEN Done(Append(tb, found[1].id), Err("Transaction", "Reverted"))
    ELSE Done(Append(tb, found[1].id), Ok([bid_id |-> found[1].id]))

(* faulty variant: the new bid is put in front of the list *)
submit_bid_push_front(tb, params, resp) ==
    LET found == find_event(resp.logs, "BidSubmitted") IN
    IF resp.stage = "send_failed" THEN Done(tb, Err("Transaction", "Contract"))
    ELSE IF resp.stage = "confirm_failed"
         THEN Done(tb, Err("Transaction", "Pending"))
    ELSE IF resp.stage = "no_body"
         THEN Done(tb, Err("Transaction", "MissingReceipt"))
    ELSE IF ~resp.status THEN Done(tb, Err("Transaction", "Reverted"))
    ELSE IF is_none(found)
         THEN Done(tb, Err("Transaction", "MissingBidSubmittedEvent"))
    ELSE Done(<<found[1].id>> \o tb, Ok([bid_id |-> found[1].id]))

(* faulty variant: the logs are searched before the receipt status is
   looked at *)
submit_bid_logs_first(tb, params, resp) ==
    LET found == find_event(resp.logs, "BidSubmitted") IN
    IF resp.stage = "send_failed" THEN Done(tb, Err("Transaction", "Contract"))
    ELSE IF resp.stage = "confirm_failed"
         THEN Done(tb, Err("Transaction", "Pending"))
    ELSE IF resp.stage = "no_body"
         THEN Done(tb, Err("Transaction", "MissingReceipt"))
    ELSE IF is_none(found)
         THEN Done(tb, Err("Transaction", "MissingBidSubmittedEvent"))
    ELSE IF ~resp.status THEN Done(tb, Err("Transaction", "Reverted"))
    ELSE Done(Append(tb, found[1].id), Ok([bid_id |-> found[1].id]))

submit_bid(tb, params, resp) ==
    LET found == find_event(resp.logs, "BidSubmitted") IN
    IF resp.stage = "send_failed" THEN Done(tb, Err("Transaction", "Contract"))
    ELSE IF resp.stage = "confirm_failed"
         THEN Done(tb, Err("Transaction", "Pending"))
    ELSE IF resp.stage = "no_body"
         THEN Done(tb, Err("Transaction", "MissingReceipt"))
    ELSE IF ~resp.status THEN Done(tb, Err("Transaction", "Reverted"))
    ELSE IF is_none(found)
         THEN Done(tb, Err("Transaction", "MissingBidSubmittedEvent"))
    ELSE Done(Append(tb, found[1].id), Ok([bid_id |-> found[1].id]))

exit_bid(tb, params, resp) ==
    LET found == find_event(resp.logs, "BidExited") IN
    IF resp.stage = "send_failed" THEN Done(tb, Err("Transaction", "Contract"))
    ELSE IF resp.stage = "confirm_failed"
         THEN Done(tb, Err("Transaction", "Pending"))
    ELSE IF resp.stage = "no_body"
         THEN Done(tb, Err("Transaction", "MissingReceipt"))
    ELSE IF ~resp.status THEN Done(tb, Err("Transaction", "Reverted"))
    ELSE IF is_none(found)
         THEN Done(tb, Err("Transaction", "MissingBidExitedEvent"))
    ELSE Done(tb, Ok([bid_id |-> params.bid_id,
                      tokens_filled |-> found[1].tokens_filled]))

exit_partially_filled(tb, params, resp) ==
    LET found == find_event(resp.logs, "BidExited") IN
    IF resp.stage = "send_failed" THEN Done(tb, Err("Transaction", "Contract"))
    ELSE IF resp.stage = "confirm_failed"
         THEN Done(tb, Err("Transaction", "Pending"))
    ELSE IF resp.stage = "no_body"
         THEN Done(tb, Err("Transaction", "MissingReceipt"))
    ELSE IF ~resp.status THEN Done(tb, Err("Transaction", "Reverted"))
    ELSE IF is_none(found)
         THEN Done(tb, Err("Transaction", "MissingBidExitedEvent"))
    ELSE Done(tb, Ok([bid_id |-> params.bid_id,
                      tokens_filled |-> found[1].tokens_filled]))

(* claim is called by the pipelines but is not in client.rs; it follows the
   write-path pattern of the specification's section 4.2 *)
claim(tb, params, resp) ==
    LET total == sum_claimed(resp.logs, params.bid_ids) IN
    IF resp.stage = "send_failed" THEN Done(tb, Err("Transaction", "Contract"))
    ELSE IF resp.stage = "confirm_failed"
         THEN Done(tb, Err("Transaction", "Pending"))
    ELSE IF resp.stage = "no_body"
         THEN Done(tb, Err("Transaction", "MissingReceipt"))
    ELSE IF ~resp.status THEN Done(tb, Err("Transaction", "Reverted"))
    ELSE IF \A i \in 1 .. Len(resp.logs) : ~is_claimed(resp.logs[i], params.bid_ids)
         THEN Done(tb, Err("Transaction", "MissingTokensClaimedEvent"))
    ELSE Done(tb, Ok([bid_ids |-> params.bid_ids, total_tokens |-> total,
                      tx_logs |-> resp.logs]))

(* which contract function a claim calls *)
claim_call(params) ==
    IF Len(params.bid_ids) = 1 THEN "claimTokens" ELSE "claimTokensBatch"

----------------------------------------------------------------------------
(* AuctionClient read path (client.rs).  A read that can fail is the set of
   Results it can give, over the chain's possible answers. *)

StateError == Err("State", "Transport")

fetch_bids(bid_ids) ==
    IF bid_ids = << >> THEN {Ok(<< >>)}
    ELSE IF Len(bid_ids) = 1
         THEN {StateError} \cup {Ok(<<b>>) : b \in BidsOf(bid_ids[1])}
    ELSE {StateError}
            \cup {Ok(<<b1, b2>>) : b1 \in BidsOf(bid_ids[1]), b2 \in BidsOf(bid_ids[2])}

(* the on-chain tick list: the initialized ticks, each pointing at the next
   higher one and the highest at TickEnd; a tick that is not initialized
   reads as 0; nextActiveTickPrice is an initialized tick or TickEnd *)
TickPrices == {FloorPrice + k * TickSpacing : k \in 0 .. 2}
TickEnd == FloorPrice + 3 * TickSpacing

TickNext(S, p) ==
    IF p \notin S THEN 0
    ELSE IF \E q \in S : q > p
         THEN CHOOSE q \in S : q > p /\ \A r \in S : r > p => q <= r
    ELSE TickEnd

TickLists ==
    UNION { { [next_active |-> a,
               next |-> [p \in TickPrices \cup {0, TickEnd} |-> TickNext(S, p)]] :
              a \in S \cup {TickEnd} } :
            S \in {T \in SUBSET TickPrices : FloorPrice \in T} }

(* the loop of compute_prev_tick_price: the ticks it reads, in order; the
   last one read is the price it breaks with *)
RECURSIVE tick_reads(_, _, _)
tick_reads(ticks, prev, max_price) ==
    LET next_price == ticks.next[prev] IN
    IF next_price >= max_price THEN <<prev>>
    ELSE IF next_price = prev THEN <<prev>>
    ELSE <<prev>> \o tick_reads(ticks, next_price, max_price)

tick_walk(ticks, prev, max_price) ==
    LET read == tick_reads(ticks, prev, max_price) IN read[Len(read)]

(* the contract reads of compute_prev_tick_price: nextActiveTickPrice, then
   one ticks(prev) per turn of the loop; none for a price that is not valid *)
compute_prev_tick_price_reads(cfg, max_price, ticks) ==
    IF ~is_valid_price(cfg, max_price) THEN 0
    ELSE LET prev == IF ticks.next_active < max_price
                        /\ ticks.next_active >= cfg.floor_price
                     THEN ticks.next_active ELSE cfg.floor_price
         IN  1 + Len(tick_reads(ticks, prev, max_price))

(* faulty variant: nextActiveTickPrice is taken as the start of the walk
   even when it equals the bid's price *)
compute_prev_tick_price_from_own_tick(cfg, max_price, ticks) ==
    IF ~is_valid_price(cfg, max_price) THEN Err("Validation", "InvalidPrice")
    ELSE LET prev == IF ticks.next_active <= max_price
                        /\ ticks.next_active >= cfg.floor_price
                     THEN ticks.next_active ELSE cfg.floor_price
         IN  Ok(tick_walk(ticks, prev, max_price))

compute_prev_tick_price(cfg, max_price, ticks) ==
    IF ~is_valid_price(cfg, max_price) THEN Err("Validation", "InvalidPrice")
    ELSE LET prev == IF ticks.next_active < max_price
                        /\ ticks.next_active >= cfg.floor_price
                     THEN ticks.next_active ELSE cfg.floor_price
         IN  Ok(tick_walk(ticks, prev, max_price))

validate_bid_params(cfg, input, state) ==
    IF state.current_block < cfg.start_block THEN "AuctionNotStarted"
    ELSE IF state.current_block >= cfg.end_block THEN "AuctionIsOver"
    ELSE IF state.phase.name # "Active" THEN "AuctionNotActive"
    ELSE IF state.tokens_received # "Received" THEN "TokensNotReceived"
    ELSE IF input.amount = 0 THEN "AmountTooSmall"
    ELSE IF input.owner = ZeroAddress THEN "OwnerIsZeroAddress"
    ELSE IF ~is_valid_price(cfg, input.max_price) THEN "InvalidPrice"
    ELSE IF is_sold_out(state.checkpoint) THEN "AuctionSoldOut"
    ELSE IF input.max_price <= state.checkpoint.clearing_price
         THEN "BidBelowClearingPrice"
    ELSE "Ok"

(* what fetch_state can return: it derives tokens_received from the token
   balance, so never Unknown *)
FetchedStates(cfg) ==
    { AuctionState_new(b, cp, g, t, cfg) :
        b \in BlockNumbers, cp \in Checkpoints, g \in GraduationStatus,
        t \in {"NotReceived", "Received"} }

SubmitBidParams(cfg, input, prev_tick_price) ==
    [max_price |-> input.max_price, amount |-> input.amount, owner |-> input.owner,
     prev_tick_price |-> prev_tick_price,
     value |-> IF cfg.native THEN input.amount ELSE 0]

prepare_bid_after_state(cfg, input, state) ==
    LET v == validate_bid_params(cfg, input, state) IN
    IF v # "Ok" THEN {Err("Validation", v)}
    ELSE {StateError}
            \cup UNION { LET hint == compute_prev_tick_price(cfg, input.max_price, t) IN
                         IF ~hint.ok THEN {hint}
                         ELSE {Err("Hook", "PreparationFailed"),
                               Err("Hook", "Rejected"),
                               Ok(SubmitBidParams(cfg, input, hint.val))} :
                         t \in TickLists }

prepare_bid(cfg, input) ==
    {StateError}
        \cup UNION { prepare_bid_after_state(cfg, input, st) : st \in FetchedStates(cfg) }

(* the exit hints are read off the chain's checkpoint list *)
ExitHints ==
    [last_fully_filled_checkpoint_block : {StartBlock},
     outbid_block : {None, Some(EndBlock)}]

prepare_exit_partially_filled(bid_id) ==
    {StateError}
        \cup { Ok([bid_id |-> bid_id,
                   last_fully_filled_checkpoint_block |-> h.last_fully_filled_checkpoint_block,
                   outbid_block |-> h.outbid_block]) : h \in ExitHints }

----------------------------------------------------------------------------
(* IntentExecutor (executor/core.rs).  A pipeline is the set of ways it can
   end, over the chain's answers to the reads and transactions it makes:
   the cache and tracked_bids it leaves, its Result, what the validator said
   ("none" when it was not reached) and the calls it made, in order. *)

Out(c, tb, result, validated, trace) ==
    [cache |-> c, tracked_bids |-> tb, result |-> result,
     validated |-> validated, trace |-> trace, read |-> << >>]

(* the bids and the AuctionState a pipeline handed to its validator *)
Reading(o, bids, state) == [o EXCEPT !.read = <<[bids |-> bids, state |-> state]>>]

IntentResult(kind, val) == [kind |-> kind, val |-> val]

CheckpointAnswers == {StateError} \cup {Ok(cp) : cp \in Checkpoints}
TokenAnswers == {StateError} \cup {Ok(t) : t \in {"NotReceived", "Received"}}
GraduationAnswers == {StateError} \cup {Ok(g) : g \in GraduationStatus}
HookAnswers == {Ok(0), Err("Hook", "Rejected")}

(* faulty variant: the auction counts as over from its start block *)
is_past_end_from_start(cfg, blk) == blk >= cfg.start_block

is_past_end(cfg, blk) == blk >= cfg.end_block

Rest(tb, result, steps) == [tracked_bids |-> tb, result |-> result, steps |-> steps]

(* faulty variant: the validator's verdict is ignored (its ? is dropped) *)
execute_submit_bid_unchecked(c, tb, cfg, own, max_price, amount, blk) ==
    LET past_end_block == is_past_end(cfg, blk)
        input == [max_price |-> max_price, amount |-> amount, owner |-> own]
        Submitted(d) ==
            IF d.result.ok THEN Ok(IntentResult("BidSubmitted", d.result.val))
            ELSE d.result
        Send(params) ==
            { Rest(d.tracked_bids, Submitted(d),
                   <<"prepare_bid", "hook.validate", "submitBid">>) :
              d \in {submit_bid(tb, params, resp) : resp \in TxResponses} }
        Hook(params) ==
            UNION { IF h.ok THEN Send(params)
                    ELSE {Rest(tb, h, <<"prepare_bid", "hook.validate">>)} :
                    h \in HookAnswers }
        prepared ==
            UNION { IF p.ok THEN Hook(p.val) ELSE {Rest(tb, p, <<"prepare_bid">>)} :
                    p \in prepare_bid(cfg, input) }
        Validate(cp, tokens_received, tr) ==
            LET c1 == update(c, Some(tokens_received), None, Some(cp), past_end_block)
                state == AuctionState_new(blk, cp, c1.graduated, tokens_received, cfg)
                v == validate_submit_bid(input, state, cfg)
            IN  { Out(c1, t.tracked_bids, t.result, v,
                      tr \o <<"validate_submit_bid">> \o t.steps) : t \in prepared }
        Tokens(cp) ==
            IF needs_token_balance(c)
            THEN UNION { IF t.ok
                         THEN Validate(cp, t.val,
                                       <<"fetch_checkpoint", "fetch_token_balance">>)
                         ELSE {Out(c, tb, t, "none",
                                   <<"fetch_checkpoint", "fetch_token_balance">>)} :
                         t \in TokenAnswers }
            ELSE Validate(cp, c.tokens_received, <<"fetch_checkpoint">>)
    IN  UNION { IF cpr.ok THEN Tokens(cpr.val)
                ELSE {Out(c, tb, cpr, "none", <<"fetch_checkpoint">>)} :
                cpr \in CheckpointAnswers }

(* faulty variant: the transaction is sent before the hook is asked *)
execute_submit_bid_hook_after_send(c, tb, cfg, own, max_price, amount, blk) ==
    LET past_end_block == is_past_end(cfg, blk)
        input == [max_price |-> max_price, amount |-> amount, owner |-> own]
        Submitted(d) ==
            IF d.result.ok THEN Ok(IntentResult("BidSubmitted", d.result.val))
            ELSE d.result
        Send(params) ==
            {submit_bid(tb, params, resp) : resp \in TxResponses}
        Hook(params) ==
            UNION { IF ~d.result.ok
                    THEN {Rest(d.tracked_bids, d.result, <<"prepare_bid", "submitBid">>)}
                    ELSE { Rest(d.tracked_bids, IF h.ok THEN Submitted(d) ELSE h,
                                <<"prepare_bid", "submitBid", "hook.validate">>) :
                           h \in HookAnswers } :
                    d \in Send(params) }
        prepared ==
            UNION { IF p.ok THEN Hook(p.val) ELSE {Rest(tb, p, <<"prepare_bid">>)} :
                    p \in prepare_bid(cfg, input) }
        Validate(cp, tokens_received, tr) ==
            LET c1 == update(c, Some(tokens_received), None, Some(cp), past_end_block)
                state == AuctionState_new(blk, cp, c1.graduated, tokens_received, cfg)
                v == validate_submit_bid(input, state, cfg)
            IN  IF v # "Ok"
                THEN {Out(c1, tb, Err("Validation", v), v,
                          tr \o <<"validate_submit_bid">>)}
                ELSE { Out(c1, t.tracked_bids, t.result, "Ok",
                           tr \o <<"validate_submit_bid">> \o t.steps) : t \in prepared }
        Tokens(cp) ==
            IF needs_token_balance(c)
            THEN UNION { IF t.ok
                         THEN Validate(cp, t.val,
                                       <<"fetch_checkpoint", "fetch_token_balance">>)
                         ELSE {Out(c, tb, t, "none",
                                   <<"fetch_checkpoint", "fetch_token_balance">>)} :
                         t \in TokenAnswers }
            ELSE Validate(cp, c.tokens_received, <<"fetch_checkpoint">>)
    IN  UNION { IF cpr.ok THEN Tokens(cpr.val)
                ELSE {Out(c, tb, cpr, "none", <<"fetch_checkpoint">>)} :
                cpr \in CheckpointAnswers }

execute_submit_bid(c, tb, cfg, own, max_price, amount, blk) ==
    LET past_end_block == is_past_end(cfg, blk)
        input == [max_price |-> max_price, amount |-> amount, owner |-> own]
        Submitted(d) ==
            IF d.result.ok THEN Ok(IntentResult("BidSubmitted", d.result.val))
            ELSE d.result
        Send(params) ==
            { Rest(d.tracked_bids, Submitted(d),
                   <<"prepare_bid", "hook.validate", "submitBid">>) :
              d \in {submit_bid(tb, params, resp) : resp \in TxResponses} }
        Hook(params) ==
            UNION { IF h.ok THEN Send(params)
                    ELSE {Rest(tb, h, <<"prepare_bid", "hook.validate">>)} :
                    h \in HookAnswers }
        prepared ==
            UNION { IF p.ok THEN Hook(p.val) ELSE {Rest(tb, p, <<"prepare_bid">>)} :
                    p \in prepare_bid(cfg, input) }
        Validate(cp, tokens_received, tr) ==
            LET c1 == update(c, Some(tokens_received), None, Some(cp), past_end_block)
                state == AuctionState_new(blk, cp, c1.graduated, tokens_received, cfg)
                v == validate_submit_bid(input, state, cfg)
            IN  { Reading(o, << >>, state) :
                  o \in IF v # "Ok"
                        THEN {Out(c1, tb, Err("Validation", v), v,
                                  tr \o <<"validate_submit_bid">>)}
                        ELSE { Out(c1, t.tracked_bids, t.result, "Ok",
                                   tr \o <<"validate_submit_bid">> \o t.steps) :
                               t \in prepared } }
        Tokens(cp) ==
            IF needs_token_balance(c)
            THEN UNION { IF t.ok
                         THEN Validate(cp, t.val,
                                       <<"fetch_checkpoint", "fetch_token_balance">>)
                         ELSE {Out(c, tb, t, "none",
                                   <<"fetch_checkpoint", "fetch_token_balance">>)} :
                         t \in TokenAnswers }
            ELSE Validate(cp, c.tokens_received, <<"fetch_checkpoint">>)
    IN  UNION { IF cpr.ok THEN Tokens(cpr.val)
                ELSE {Out(c, tb, cpr, "none", <<"fetch_checkpoint">>)} :
                cpr \in CheckpointAnswers }

execute_exit(c, tb, cfg, bid_id, blk) ==
    LET past_end_block == is_past_end(cfg, blk)
        fetched == fetch_bids(<<bid_id>>)
        Exited(d) ==
            IF d.result.ok THEN Ok(IntentResult("BidExited", d.result.val))
            ELSE d.result
        exit_full ==
            { Rest(d.tracked_bids, Exited(d), <<"exitBid">>) :
              d \in {exit_bid(tb, [bid_id |-> bid_id], resp) : resp \in TxResponses} }
        exit_partial ==
            UNION { IF ~p.ok THEN {Rest(tb, p, <<"prepare_exit_partially_filled">>)}
                    ELSE { Rest(d.tracked_bids, Exited(d),
                                <<"prepare_exit_partially_filled",
                                  "exitPartiallyFilledBid">>) :
                           d \in {exit_partially_filled(tb, p.val, resp) :
                                    resp \in TxResponses} } :
                    p \in prepare_exit_partially_filled(bid_id) }
        Full(c2, bid, state, tr) ==
            LET v == validate_exit_bid(bid, state, cfg) IN
            IF v # "Ok"
            THEN {Out(c2, tb, Err("Validation", v), v, tr \o <<"validate_exit_bid">>)}
            ELSE { Out(c2, t.tracked_bids, t.result, "Ok",
                       tr \o <<"validate_exit_bid">> \o t.steps) : t \in exit_full }
        Partial(c2, bid, state, tr) ==
            LET v == validate_exit_partially_filled(bid, state, cfg) IN
            IF v # "Ok"
            THEN {Out(c2, tb, Err("Validation", v), v,
                      tr \o <<"validate_exit_partially_filled">>)}
            ELSE { Out(c2, t.tracked_bids, t.result, "Ok",
                       tr \o <<"validate_exit_partially_filled">> \o t.steps) :
                   t \in exit_partial }
        Bid(c2, cp, graduation, tr) ==
            UNION { IF ~bs.ok THEN {Out(c2, tb, bs, "none", tr \o <<"fetch_bids">>)}
                    ELSE IF bs.val = << >>
                         THEN {Out(c2, tb, Err("State", "BidNotFound"), "none",
                                   tr \o <<"fetch_bids">>)}
                    ELSE LET bid == Head(bs.val)
                             state == AuctionState_new(blk, cp, graduation,
                                                       c2.tokens_received, cfg)
                         IN  { Reading(o, bs.val, state) :
                               o \in IF status(bid, cp.clearing_price) = "ITM"
                                     THEN Full(c2, bid, state, tr \o <<"fetch_bids">>)
                                     ELSE Partial(c2, bid, state,
                                                  tr \o <<"fetch_bids">>) } :
                    bs \in fetched }
        Graduation(c1, cp, tr) ==
            IF needs_graduation(c1)
            THEN UNION { IF ~g.ok
                         THEN {Out(c1, tb, g, "none", tr \o <<"fetch_graduation">>)}
                         ELSE Bid(update(c1, None, Some(g.val), None, past_end_block),
                                  cp, g.val, tr \o <<"fetch_graduation">>) :
                         g \in GraduationAnswers }
            ELSE Bid(c1, cp, c1.graduated, tr)
    IN  IF needs_checkpoint(c, past_end_block)
        THEN UNION { IF ~cpr.ok THEN {Out(c, tb, cpr, "none", <<"fetch_checkpoint">>)}
                     ELSE Graduation(update(c, None, None, Some(cpr.val), past_end_block),
                                     cpr.val, <<"fetch_checkpoint">>) :
                     cpr \in CheckpointAnswers }
        ELSE IF is_none(c.final_checkpoint)
             THEN {Out(c, tb, Err("State", "FinalCheckpointNotCached"), "none", << >>)}
        ELSE Graduation(c, c.final_checkpoint[1], << >>)

execute_claim(c, tb, cfg, own, bid_ids, blk) ==
    LET past_end_block == is_past_end(cfg, blk)
        params == [owner |-> own, bid_ids |-> bid_ids]
        fetched == fetch_bids(bid_ids)
        claimed == {claim(tb, params, resp) : resp \in TxResponses}
        Validate(c1, graduation, bids, tr) ==
            IF is_none(c1.final_checkpoint)
            THEN {Out(c1, tb, Err("State", "FinalCheckpointNotCached"), "none", tr)}
            ELSE LET state == AuctionState_new(blk, c1.final_checkpoint[1], graduation,
                                               c1.tokens_received, cfg)
                     v == validate_claim(bids, own, state, cfg)
                 IN  { Reading(o, bids, state) :
                       o \in IF v # "Ok"
                             THEN {Out(c1, tb, Err("Validation", v), v,
                                       tr \o <<"validate_claim">>)}
                             ELSE { Out(c1, d.tracked_bids,
                                        IF d.result.ok
                                        THEN Ok(IntentResult("TokensClaimed",
                                                             d.result.val))
                                        ELSE d.result,
                                        "Ok",
                                        tr \o <<"validate_claim", claim_call(params)>>) :
                                    d \in claimed } }
        Bids(c1, graduation, tr) ==
            UNION { IF ~bs.ok THEN {Out(c1, tb, bs, "none", tr \o <<"fetch_bids">>)}
                    ELSE Validate(c1, graduation, bs.val, tr \o <<"fetch_bids">>) :
                    bs \in fetched }
    IN  IF needs_graduation(c)
        THEN UNION { IF ~g.ok THEN {Out(c, tb, g, "none", <<"fetch_graduation">>)}
                     ELSE Bids(update(c, None, Some(g.val), None, past_end_block),
                               g.val, <<"fetch_graduation">>) :
                     g \in GraduationAnswers }
        ELSE Bids(c, c.graduated, << >>)

(* faulty variant: a Claim reads the checkpoint itself and caches it past
   end_block before it runs the claim pipeline *)
execute_inner_claim_reads_checkpoint(c, tb, cfg, own, intent, blk) ==
    IF intent.kind = "SubmitBid"
    THEN execute_submit_bid(c, tb, cfg, own, intent.max_price, intent.amount, blk)
    ELSE IF intent.kind = "Exit" THEN execute_exit(c, tb, cfg, intent.bid_id, blk)
    ELSE UNION {
            IF ~cp.ok THEN {Out(c, tb, cp, "none", <<"fetch_checkpoint">>)}
            ELSE { [o EXCEPT !.trace = <<"fetch_checkpoint">> \o @] :
                   o \in execute_claim(
                            update(c, None, None, Some(cp.val), is_past_end(cfg, blk)),
                            tb, cfg, own, intent.bid_ids, blk) } :
            cp \in CheckpointAnswers }

execute_inner(c, tb, cfg, own, intent, blk) ==
    IF intent.kind = "SubmitBid"
    THEN execute_submit_bid(c, tb, cfg, own, intent.max_price, intent.amount, blk)
    ELSE IF intent.kind = "Exit" THEN execute_exit(c, tb, cfg, intent.bid_id, blk)
    ELSE execute_claim(c, tb, cfg, own, intent.bid_ids, blk)

(* IntentOutcome *)
Success(result) == [tag |-> "Success", result |-> result]
Failed(intent, error) == [tag |-> "Failed", intent |-> intent, error |-> error]

(* faulty variant: the failure is reported against an empty Claim instead of
   the intent that was passed in (the clone is lost) *)
execute_failed_other_intent(c, tb, cfg, own, intent, blk) ==
    { [cache |-> o.cache, tracked_bids |-> o.tracked_bids,
       outcome |-> IF o.result.ok THEN Success(o.result.val)
                   ELSE Failed([kind |-> "Claim", bid_ids |-> << >>], o.result.val),
       validated |-> o.validated, trace |-> o.trace, read |-> o.read] :
      o \in execute_inner(c, tb, cfg, own, intent, blk) }

(* faulty variant: a failed intent puts the cache back as it was *)
execute_rollback(c, tb, cfg, own, intent, blk) ==
    { [cache |-> IF o.result.ok THEN o.cache ELSE c,
       tracked_bids |-> o.tracked_bids,
       outcome |-> IF o.result.ok THEN Success(o.result.val)
                   ELSE Failed(intent, o.result.val),
       validated |-> o.validated, trace |-> o.trace, read |-> o.read] :
      o \in execute_inner(c, tb, cfg, own, intent, blk) }

execute(c, tb, cfg, own, intent, blk) ==
    { [cache |-> o.cache, tracked_bids |-> o.tracked_bids,
       outcome |-> IF o.result.ok THEN Success(o.result.val)
                   ELSE Failed(intent, o.result.val),
       validated |-> o.validated, trace |-> o.trace, read |-> o.read] :
      o \in execute_inner(c, tb, cfg, own, intent, blk) }

----------------------------------------------------------------------------
(* Values of the variables a specification does not use *)

Idle ==
    /\ bids_submitted = 0
    /\ bids_exited = 0
    /\ tokens_claimed = 0
    /\ stream = [mode |-> "none", items |-> 0]
    /\ block = 0
    /\ intents = << >>
    /\ ret = [tag |-> "none"]

IdleUnchanged ==
    UNCHANGED << bids_submitted, bids_exited, tokens_claimed, stream, block,
                 intents, ret >>

----------------------------------------------------------------------------
(* SpecCache: a cache built by new() and then any update calls *)

OptionOf(S) == {None} \cup {Some(x) : x \in S}

InitCache ==
    /\ config \in Configs
    /\ owner = AgentAddress
    /\ tracked_bids = << >>
    /\ cache = ExecutorCache_new
    /\ pc = "cache"
    /\ last = [op |-> "new", calls |-> 0]
    /\ hist = << >>
    /\ Idle

CacheUpdate ==
    /\ pc = "cache"
    /\ last.calls < MaxCalls
    /\ \E tokens \in OptionOf(TokenDepositStatus),
          graduation \in OptionOf(GraduationStatus),
          checkpoint \in OptionOf(Checkpoints),
          past_end_block \in BOOLEAN :
          /\ cache' = update(cache, tokens, graduation, checkpoint, past_end_block)
          /\ last' = [op |-> "update", calls |-> last.calls + 1,
                      tokens |-> tokens, graduation |-> graduation,
                      checkpoint |-> checkpoint, past_end_block |-> past_end_block]
    /\ UNCHANGED << config, owner, tracked_bids, pc, hist >>
    /\ IdleUnchanged

NextCache == CacheUpdate

SpecCache == InitCache /\ [][NextCache]_vars

(* C3: across any sequence of update calls, tokens_received never leaves
   Received, graduated never leaves Graduated, and a present final_checkpoint
   never changes its value. *)
C3_CacheMonotonic ==
    [][ /\ (cache.tokens_received = "Received" => cache'.tokens_received = "Received")
        /\ (cache.graduated = "Graduated" => cache'.graduated = "Graduated")
        /\ (is_some(cache.final_checkpoint)
              => cache'.final_checkpoint = cache.final_checkpoint) ]_vars

(* An update that offered NotReceived, NotGraduated and another past-end
   checkpoint to a cache that already held all three facts. *)
C3_Witness ==
    /\ last.op = "update"
    /\ last.tokens = Some("NotReceived")
    /\ last.graduation = Some("NotGraduated")
    /\ last.past_end_block
    /\ is_some(last.checkpoint)
    /\ cache.tokens_received = "Received"
    /\ cache.graduated = "Graduated"
    /\ is_some(cache.final_checkpoint)
    /\ cache.final_checkpoint # last.checkpoint

----------------------------------------------------------------------------
(* SpecClient: a client built by new() and then any of its operations *)

InitialTracked == {<< >>, <<1>>, <<2, 1>>}

SomeInput == [max_price |-> HighPrice, amount |-> 1, owner |-> AgentAddress]

ClaimIdLists == {<<i>> : i \in BidIds} \cup {<<i, j>> : i \in BidIds, j \in BidIds}

InitClient ==
    /\ config \in Configs
    /\ owner = AgentAddress
    /\ tracked_bids \in InitialTracked
    /\ cache = ExecutorCache_new
    /\ pc = "client"
    /\ last = [op |-> "new", result |-> Ok(0)]
    /\ hist = [initial |-> tracked_bids, confirmed |-> << >>]
    /\ Idle

ClientFrame ==
    /\ Len(tracked_bids) <= MaxTracked
    /\ pc = "client"
    /\ UNCHANGED << config, owner, cache, pc >>
    /\ IdleUnchanged

ClientSubmitBid ==
    /\ ClientFrame
    /\ \E resp \in TxResponses :
          LET d == submit_bid(tracked_bids, SubmitBidParams(config, SomeInput, FloorPrice),
                              resp)
          IN  /\ tracked_bids' = d.tracked_bids
              /\ last' = [op |-> "submit_bid", result |-> d.result, receipt |-> resp]
              /\ hist' = IF d.result.ok
                         THEN [hist EXCEPT !.confirmed = Append(@, d.result.val.bid_id)]
                         ELSE hist

ClientExitBid ==
    /\ ClientFrame
    /\ \E id \in BidIds, resp \in TxResponses :
          LET d == exit_bid(tracked_bids, [bid_id |-> id], resp)
          IN  /\ tracked_bids' = d.tracked_bids
              /\ last' = [op |-> "exit_bid", result |-> d.result, receipt |-> resp]
    /\ UNCHANGED hist

ClientExitPartiallyFilled ==
    /\ ClientFrame
    /\ \E id \in BidIds, h \in ExitHints, resp \in TxResponses :
          LET d == exit_partially_filled(tracked_bids,
                       [bid_id |-> id,
                        last_fully_filled_checkpoint_block |->
                            h.last_fully_filled_checkpoint_block,
                        outbid_block |-> h.outbid_block], resp)
          IN  /\ tracked_bids' = d.tracked_bids
              /\ last' = [op |-> "exit_partially_filled", result |-> d.result,
                          receipt |-> resp]
    /\ UNCHANGED hist

ClientClaim ==
    /\ ClientFrame
    /\ \E ids \in ClaimIdLists, resp \in TxResponses :
          LET d == claim(tracked_bids, [owner |-> owner, bid_ids |-> ids], resp)
          IN  /\ tracked_bids' = d.tracked_bids
              /\ last' = [op |-> "claim", result |-> d.result, receipt |-> resp,
                          bid_ids |-> ids]
    /\ UNCHANGED hist

(* the operations that take &self; of what they return the observation
   keeps Ok or the error *)
Brief(r) == IF r.ok THEN Ok(0) ELSE r

ClientFetchBids ==
    /\ ClientFrame
    /\ \E ids \in {<< >>} \cup ClaimIdLists : \E r \in fetch_bids(ids) :
          last' = [op |-> "fetch_bids", result |-> Brief(r)]
    /\ UNCHANGED << tracked_bids, hist >>

ClientPrepareBid ==
    /\ ClientFrame
    /\ \E r \in prepare_bid(config, SomeInput) :
          last' = [op |-> "prepare_bid", result |-> Brief(r)]
    /\ UNCHANGED << tracked_bids, hist >>

ClientPrepareExit ==
    /\ ClientFrame
    /\ \E id \in BidIds : \E r \in prepare_exit_partially_filled(id) :
          last' = [op |-> "prepare_exit_partially_filled", result |-> Brief(r)]
    /\ UNCHANGED << tracked_bids, hist >>

NextClient ==
    \/ ClientSubmitBid
    \/ ClientExitBid
    \/ ClientExitPartiallyFilled
    \/ ClientClaim
    \/ ClientFetchBids
    \/ ClientPrepareBid
    \/ ClientPrepareExit

SpecClient == InitClient /\ [][NextClient]_vars

(* C4: tracked_bids is the constructor's list followed by the ids of the
   successful submit_bid calls in the order they were confirmed, and the id
   a successful submit_bid returns is its last element. *)
C4_TrackedIsInitialThenConfirmed ==
    /\ tracked_bids = hist.initial \o hist.confirmed
    /\ (last.op = "submit_bid" /\ last.result.ok
          => /\ tracked_bids # << >>
             /\ tracked_bids[Len(tracked_bids)] = last.result.val.bid_id)

(* Two submits confirmed with different ids on top of a non-empty initial list. *)
C4_Witness ==
    /\ last.op = "submit_bid"
    /\ last.result.ok
    /\ hist.initial # << >>
    /\ Len(hist.confirmed) = 2
    /\ hist.confirmed[1] # hist.confirmed[2]
    /\ hist.confirmed[2] # hist.initial[1]

(* C5: a step changes tracked_bids only if it is a submit_bid that returned
   Ok; failed submits, exits, claims, reads and prepares leave it as it was. *)
C5_OnlySuccessfulSubmitChangesTracked ==
    [][ tracked_bids' # tracked_bids
          => last'.op = "submit_bid" /\ last'.result.ok ]_vars

(* A submit_bid whose receipt was reverted, after an earlier one was tracked. *)
C5_Witness ==
    /\ last.op = "submit_bid"
    /\ ~last.result.ok
    /\ last.result.val.err = "Reverted"
    /\ hist.confirmed # << >>
    /\ tracked_bids = hist.initial \o hist.confirmed

----------------------------------------------------------------------------
(* SpecExec: an executor built by new() and then any execute calls *)

SubmitBid(max_price, amount) ==
    [kind |-> "SubmitBid", max_price |-> max_price, amount |-> amount]
Exit(bid_id) == [kind |-> "Exit", bid_id |-> bid_id]
Claim(bid_ids) == [kind |-> "Claim", bid_ids |-> bid_ids]


ExecutorIntents ==
    {SubmitBid(HighPrice, 1), SubmitBid(HighPrice + 1, 1)}
        \cup {Exit(i) : i \in BidIds}
        \cup {Claim(<< >>), Claim(<<1>>), Claim(<<1, MaxBidId>>)}

Writes == {"submitBid", "exitBid", "exitPartiallyFilledBid", "claimTokens",
           "claimTokensBatch"}

Sent(trace) == {i \in 1 .. Len(trace) : trace[i] \in Writes}

InitExec ==
    /\ config \in Configs
    /\ owner = AgentAddress
    /\ tracked_bids \in {<< >>, <<1>>}
    /\ cache = ExecutorCache_new
    /\ pc = "executor"
    /\ last = [op |-> "new", calls |-> 0]
    /\ hist = [initial |-> tracked_bids, confirmed |-> << >>]
    /\ Idle

(* one call of execute; observed says whether the call's reading is kept *)
ExecExecuteOf(Intents, observed) ==
    /\ pc = "executor"
    /\ last.calls < MaxCalls
    /\ \E intent \in Intents, blk \in BlockNumbers :
          \E o \in { [x EXCEPT !.read = IF observed THEN @ ELSE None] :
                     x \in execute(cache, tracked_bids, config, owner, intent, blk) } :
             /\ cache' = o.cache
             /\ tracked_bids' = o.tracked_bids
             /\ last' = [op |-> "execute", calls |-> last.calls + 1,
                         intent |-> intent, block |-> blk, outcome |-> o.outcome,
                         validated |-> o.validated, trace |-> o.trace,
                         read |-> o.read]
    /\ UNCHANGED << config, owner, pc, hist >>
    /\ IdleUnchanged

ExecExecute == ExecExecuteOf(ExecutorIntents, FALSE)

NextExec == ExecExecute

SpecExec == InitExec /\ [][NextExec]_vars

MatchingValidator(call) ==
    CASE call = "submitBid" -> "validate_submit_bid"
      [] call = "exitBid" -> "validate_exit_bid"
      [] call = "exitPartiallyFilledBid" -> "validate_exit_partially_filled"
      [] OTHER -> "validate_claim"

(* C2: a write transaction is sent only after the matching validator has
   returned Ok earlier in the same execution; when the validator rejects, the
   execution sends no transaction, ends in a Validation error carrying the
   validator's verdict, and leaves tracked_bids and the counters as they
   were. *)
C2_WriteOnlyAfterValidatorOk ==
    [][ last'.op = "execute" =>
          /\ \A i \in Sent(last'.trace) :
                /\ last'.validated = "Ok"
                /\ \E j \in 1 .. (i - 1) :
                      last'.trace[j] = MatchingValidator(last'.trace[i])
          /\ (last'.validated \notin {"none", "Ok"} =>
                /\ Sent(last'.trace) = {}
                /\ last'.outcome.tag = "Failed"
                /\ last'.outcome.error = [kind |-> "Validation",
                                          err |-> last'.validated]
                /\ tracked_bids' = tracked_bids
                /\ bids_submitted' = bids_submitted
                /\ bids_exited' = bids_exited
                /\ tokens_claimed' = tokens_claimed) ]_vars

(* A SubmitBid whose max price is not above the clearing price was rejected
   by validate_submit_bid after a bid had already been tracked. *)
C2_Witness ==
    /\ last.op = "execute"
    /\ last.intent.kind = "SubmitBid"
    /\ last.validated = "BidBelowClearingPrice"
    /\ Sent(last.trace) = {}
    /\ Len(tracked_bids) > Len(hist.initial)

----------------------------------------------------------------------------
(* OrchestratorCache (orchestrator/cache.rs is not among the sources; its
   operations follow the specification's section 4.3 and their call sites
   in orchestrator/core.rs) *)

OrchestratorCache_new ==
    [tokens_received |-> "Unknown", graduated |-> "NotGraduated",
     final_checkpoint |-> None]

OrchestratorCache_update(c, tokens, graduation, checkpoint, past_end_block) ==
    [tokens_received |->
        IF tokens = Some("Received") THEN "Received" ELSE c.tokens_received,
     graduated |->
        IF graduation = Some("Graduated") THEN "Graduated" ELSE c.graduated,
     final_checkpoint |->
        IF past_end_block /\ is_some(checkpoint) /\ is_none(c.final_checkpoint)
        THEN checkpoint ELSE c.final_checkpoint]

OrchestratorCache_needs_token_balance(c) == c.tokens_received # "Received"

OrchestratorCache_needs_graduation(c) == c.graduated # "Graduated"

OrchestratorCache_needs_checkpoint(c, past_end_block) ==
    ~(past_end_block /\ is_some(c.final_checkpoint))

----------------------------------------------------------------------------
(* Orchestrator (orchestrator/core.rs).  Its three pipelines are written out
   as the file has them. *)

Skip == [kind |-> "Skip"]

Orchestrator_is_past_end(cfg, blk) == blk >= cfg.end_block

Orchestrator_execute_submit_bid(c, tb, cfg, own, max_price, amount, blk) ==
    LET past_end_block == Orchestrator_is_past_end(cfg, blk)
        input == [max_price |-> max_price, amount |-> amount, owner |-> own]
        Submitted(d) ==
            IF d.result.ok THEN Ok(IntentResult("BidSubmitted", d.result.val))
            ELSE d.result
        Send(params) ==
            { Rest(d.tracked_bids, Submitted(d),
                   <<"prepare_bid", "hook.validate", "submitBid">>) :
              d \in {submit_bid(tb, params, resp) : resp \in TxResponses} }
        Hook(params) ==
            UNION { IF h.ok THEN Send(params)
                    ELSE {Rest(tb, h, <<"prepare_bid", "hook.validate">>)} :
                    h \in HookAnswers }
        prepared ==
            UNION { IF p.ok THEN Hook(p.val) ELSE {Rest(tb, p, <<"prepare_bid">>)} :
                    p \in prepare_bid(cfg, input) }
        Validate(cp, tokens_received, tr) ==
            LET c1 == OrchestratorCache_update(c, Some(tokens_received), None, Some(cp), past_end_block)
                state == AuctionState_new(blk, cp, c1.graduated, tokens_received, cfg)
                v == validate_submit_bid(input, state, cfg)
            IN  IF v # "Ok"
                THEN {Out(c1, tb, Err("Validation", v), v,
                          tr \o <<"validate_submit_bid">>)}
                ELSE { Out(c1, t.tracked_bids, t.result, "Ok",
                           tr \o <<"validate_submit_bid">> \o t.steps) : t \in prepared }
        Tokens(cp) ==
            IF OrchestratorCache_needs_token_balance(c)
            THEN UNION { IF t.ok
                         THEN Validate(cp, t.val,
                                       <<"fetch_checkpoint", "fetch_token_balance">>)
                         ELSE {Out(c, tb, t, "none",
                                   <<"fetch_checkpoint", "fetch_token_balance">>)} :
                         t \in TokenAnswers }
            ELSE Validate(cp, c.tokens_received, <<"fetch_checkpoint">>)
    IN  UNION { IF cpr.ok THEN Tokens(cpr.val)
                ELSE {Out(c, tb, cpr, "none", <<"fetch_checkpoint">>)} :
                cpr \in CheckpointAnswers }

Orchestrator_execute_exit(c, tb, cfg, bid_id, blk) ==
    LET past_end_block == Orchestrator_is_past_end(cfg, blk)
        fetched == fetch_bids(<<bid_id>>)
        Exited(d) ==
            IF d.result.ok THEN Ok(IntentResult("BidExited", d.result.val))
            ELSE d.result
        exit_full ==
            { Rest(d.tracked_bids, Exited(d), <<"exitBid">>) :
              d \in {exit_bid(tb, [bid_id |-> bid_id], resp) : resp \in TxResponses} }
        exit_partial ==
            UNION { IF ~p.ok THEN {Rest(tb, p, <<"prepare_exit_partially_filled">>)}
                    ELSE { Rest(d.tracked_bids, Exited(d),
                                <<"prepare_exit_partially_filled",
                                  "exitPartiallyFilledBid">>) :
                           d \in {exit_partially_filled(tb, p.val, resp) :
                                    resp \in TxResponses} } :
                    p \in prepare_exit_partially_filled(bid_id) }
        Full(c2, bid, state, tr) ==
            LET v == validate_exit_bid(bid, state, cfg) IN
            IF v # "Ok"
            THEN {Out(c2, tb, Err("Validation", v), v, tr \o <<"validate_exit_bid">>)}
            ELSE { Out(c2, t.tracked_bids, t.result, "Ok",
                       tr \o <<"validate_exit_bid">> \o t.steps) : t \in exit_full }
        Partial(c2, bid, state, tr) ==
            LET v == validate_exit_partially_filled(bid, state, cfg) IN
            IF v # "Ok"
            THEN {Out(c2, tb, Err("Validation", v), v,
                      tr \o <<"validate_exit_partially_filled">>)}
            ELSE { Out(c2, t.tracked_bids, t.result, "Ok",
                       tr \o <<"validate_exit_partially_filled">> \o t.steps) :
                   t \in exit_partial }
        Bid(c2, cp, graduation, tr) ==
            UNION { IF ~bs.ok THEN {Out(c2, tb, bs, "none", tr \o <<"fetch_bids">>)}
                    ELSE IF bs.val = << >>
                         THEN {Out(c2, tb, Err("State", "BidNotFound"), "none",
                                   tr \o <<"fetch_bids">>)}
                    ELSE LET bid == Head(bs.val)
                             state == AuctionState_new(blk, cp, graduation,
                                                       c2.tokens_received, cfg)
                         IN  IF status(bid, cp.clearing_price) = "ITM"
                             THEN Full(c2, bid, state, tr \o <<"fetch_bids">>)
                             ELSE Partial(c2, bid, state, tr \o <<"fetch_bids">>) :
                    bs \in fetched }
        Graduation(c1, cp, tr) ==
            IF OrchestratorCache_needs_graduation(c1)
            THEN UNION { IF ~g.ok
                         THEN {Out(c1, tb, g, "none", tr \o <<"fetch_graduation">>)}
                         ELSE Bid(OrchestratorCache_update(c1, None, Some(g.val), None, past_end_block),
                                  cp, g.val, tr \o <<"fetch_graduation">>) :
                         g \in GraduationAnswers }
            ELSE Bid(c1, cp, c1.graduated, tr)
    IN  IF OrchestratorCache_needs_checkpoint(c, past_end_block)
        THEN UNION { IF ~cpr.ok THEN {Out(c, tb, cpr, "none", <<"fetch_checkpoint">>)}
                     ELSE Graduation(OrchestratorCache_update(c, None, None, Some(cpr.val), past_end_block),
                                     cpr.val, <<"fetch_checkpoint">>) :
                     cpr \in CheckpointAnswers }
        ELSE IF is_none(c.final_checkpoint)
             THEN {Out(c, tb, Err("State", "FinalCheckpointNotCached"), "none", << >>)}
        ELSE Graduation(c, c.final_checkpoint[1], << >>)

Orchestrator_execute_claim(c, tb, cfg, own, bid_ids, blk) ==
    LET past_end_block == Orchestrator_is_past_end(cfg, blk)
        params == [owner |-> own, bid_ids |-> bid_ids]
        fetched == fetch_bids(bid_ids)
        claimed == {claim(tb, params, resp) : resp \in TxResponses}
        Validate(c1, graduation, bids, tr) ==
            IF is_none(c1.final_checkpoint)
            THEN {Out(c1, tb, Err("State", "FinalCheckpointNotCached"), "none", tr)}
            ELSE LET state == AuctionState_new(blk, c1.final_checkpoint[1], graduation,
                                               c1.tokens_received, cfg)
                     v == validate_claim(bids, own, state, cfg)
                 IN  IF v # "Ok"
                     THEN {Out(c1, tb, Err("Validation", v), v,
                               tr \o <<"validate_claim">>)}
                     ELSE { Out(c1, d.tracked_bids,
                                IF d.result.ok
                                THEN Ok(IntentResult("TokensClaimed", d.result.val))
                                ELSE d.result,
                                "Ok", tr \o <<"validate_claim", claim_call(params)>>) :
                            d \in claimed }
        Bids(c1, graduation, tr) ==
            UNION { IF ~bs.ok THEN {Out(c1, tb, bs, "none", tr \o <<"fetch_bids">>)}
                    ELSE Validate(c1, graduation, bs.val, tr \o <<"fetch_bids">>) :
                    bs \in fetched }
    IN  IF OrchestratorCache_needs_graduation(c)
        THEN UNION { IF ~g.ok THEN {Out(c, tb, g, "none", <<"fetch_graduation">>)}
                     ELSE Bids(OrchestratorCache_update(c, None, Some(g.val), None, past_end_block),
                               g.val, <<"fetch_graduation">>) :
                     g \in GraduationAnswers }
        ELSE Bids(c, c.graduated, << >>)

(* faulty variant: a failed pipeline hands back the cache it started with *)
resolve_and_execute_cache_restored(c, tb, cfg, own, intent, blk) ==
    { [o EXCEPT !.cache = IF o.result.ok THEN @ ELSE c] :
      o \in IF intent.kind = "SubmitBid"
            THEN Orchestrator_execute_submit_bid(c, tb, cfg, own, intent.max_price,
                                                 intent.amount, blk)
            ELSE IF intent.kind = "Exit"
                 THEN Orchestrator_execute_exit(c, tb, cfg, intent.bid_id, blk)
            ELSE IF intent.kind = "Claim"
                 THEN Orchestrator_execute_claim(c, tb, cfg, own, intent.bid_ids, blk)
            ELSE {Out(c, tb, Ok(IntentResult("Skipped", 0)), "none", << >>)} }

resolve_and_execute(c, tb, cfg, own, intent, blk) ==
    IF intent.kind = "SubmitBid"
    THEN Orchestrator_execute_submit_bid(c, tb, cfg, own, intent.max_price,
                                         intent.amount, blk)
    ELSE IF intent.kind = "Exit"
         THEN Orchestrator_execute_exit(c, tb, cfg, intent.bid_id, blk)
    ELSE IF intent.kind = "Claim"
         THEN Orchestrator_execute_claim(c, tb, cfg, own, intent.bid_ids, blk)
    ELSE {Out(c, tb, Ok(IntentResult("Skipped", 0)), "none", << >>)}

Counters(submitted, exited, claimed) ==
    [bids_submitted |-> submitted, bids_exited |-> exited,
     tokens_claimed |-> claimed]

(* faulty variant: a claim is counted as one token *)
record_result_counts_claims(n, result) ==
    IF result.kind = "BidSubmitted"
    THEN [n EXCEPT !.bids_submitted = @ + 1]
    ELSE IF result.kind = "BidExited"
         THEN [n EXCEPT !.bids_exited = @ + 1]
    ELSE IF result.kind = "TokensClaimed"
         THEN [n EXCEPT !.tokens_claimed = @ + 1]
    ELSE n

(* faulty variant: an exit is counted as a submit *)
record_result_exit_as_submit(n, result) ==
    IF result.kind \in {"BidSubmitted", "BidExited"}
    THEN [n EXCEPT !.bids_submitted = @ + 1]
    ELSE IF result.kind = "TokensClaimed"
         THEN [n EXCEPT !.tokens_claimed = @ + result.val.total_tokens]
    ELSE n

(* faulty variant: every result that is not an exit or a claim counts as a
   submitted bid *)
record_result_counts_skips(n, result) ==
    IF result.kind = "BidExited"
    THEN [n EXCEPT !.bids_exited = @ + 1]
    ELSE IF result.kind = "TokensClaimed"
         THEN [n EXCEPT !.tokens_claimed = @ + result.val.total_tokens]
    ELSE [n EXCEPT !.bids_submitted = @ + 1]

record_result(n, result) ==
    IF result.kind = "BidSubmitted"
    THEN [n EXCEPT !.bids_submitted = @ + 1]
    ELSE IF result.kind = "BidExited"
         THEN [n EXCEPT !.bids_exited = @ + 1]
    ELSE IF result.kind = "TokensClaimed"
         THEN [n EXCEPT !.tokens_claimed = @ + result.val.total_tokens]
    ELSE n

(* faulty variant: the reason handed to finalize is dropped *)
finalize_all_processed(n, reason) ==
    [bids_submitted |-> n.bids_submitted, bids_exited |-> n.bids_exited,
     tokens_claimed |-> n.tokens_claimed, reason |-> "AllBidsProcessed"]

finalize(n, reason) ==
    [bids_submitted |-> n.bids_submitted, bids_exited |-> n.bids_exited,
     tokens_claimed |-> n.tokens_claimed, reason |-> reason]

(* faulty variant: Ended completes whatever the graduation status *)
is_complete_any_graduation(tb, c, phase) ==
    LET no_tracked_bids == tb = << >> IN
    IF phase.name \in {"Claimable", "Ended"} THEN no_tracked_bids ELSE FALSE

is_complete(tb, c, phase) ==
    LET no_tracked_bids == tb = << >> IN
    IF phase.name = "Claimable" THEN no_tracked_bids
    ELSE IF phase.name = "Ended"
         THEN no_tracked_bids /\ c.graduated = "NotGraduated"
    ELSE FALSE

all_skip(list) == \A i \in 1 .. Len(list) : list[i].kind = "Skip"


(* faulty variant: the intents of a block are taken from the back of the list *)
take_intent_last(list) ==
    [intent |-> list[Len(list)], rest |-> SubSeq(list, 1, Len(list) - 1)]

(* for intent in intents *)
take_intent(list) == [intent |-> Head(list), rest |-> Tail(list)]

----------------------------------------------------------------------------
(* BlockProducer (blocks/producer.rs): the provider's answers to
   subscribe_blocks and watch_full_blocks decide which stream is built *)

BlockStreamError == Err("BlockStream", "Transport")

SubscribeAnswers == {"Ok", "PubsubUnavailable", "Other"}
WatchAnswers == {"Ok", "Failed"}

try_subscribe(answer) ==
    IF answer = "Ok" THEN Ok("subscription")
    ELSE Err("BlockStream", answer)

watch(answer) == IF answer = "Ok" THEN Ok("polling") ELSE BlockStreamError

(* faulty variant: every subscribe error falls back to polling *)
into_stream_always_falls_back(subscribed, watched) ==
    LET r == try_subscribe(subscribed)
        Called(res, calls) == [ok |-> res.ok, val |-> res.val, calls |-> calls]
    IN  IF r.ok THEN Called(r, <<"subscribe_blocks">>)
        ELSE Called(watch(watched), <<"subscribe_blocks", "watch_full_blocks">>)

(* the Result, and the provider calls made to get it *)
into_stream(subscribed, watched) ==
    LET r == try_subscribe(subscribed)
        Called(res, calls) == [ok |-> res.ok, val |-> res.val, calls |-> calls]
    IN  IF r.ok THEN Called(r, <<"subscribe_blocks">>)
        ELSE IF r.val.err = "PubsubUnavailable"
             THEN Called(watch(watched), <<"subscribe_blocks", "watch_full_blocks">>)
        ELSE Called(BlockStreamError, <<"subscribe_blocks">>)

(* what a built stream can yield next: the subscription maps every header
   to Ok(number); the poller maps every block to Ok(number) and every
   failure to Err; either can end *)
StreamItems(mode) ==
    {None} \cup {Some(Ok(n)) : n \in BlockNumbers}
           \cup (IF mode = "polling" THEN {Some(BlockStreamError)} ELSE {})

ItemKind(item) ==
    IF is_none(item) THEN "end" ELSE IF item[1].ok THEN "block" ELSE "err"

(* faulty variant: while let Some(Ok(block)) = blocks.next().await *)
run_next_while_ok(item) ==
    IF is_some(item) /\ item[1].ok THEN "handle_block" ELSE "finalize"

(* what run does with the item it awaited *)
run_next(item) ==
    IF is_none(item) THEN "finalize"
    ELSE IF ~item[1].ok THEN "propagate"
    ELSE "handle_block"


----------------------------------------------------------------------------
(* Spec: an orchestrator built by new(), run on a stream from BlockProducer;
   run takes &mut self, so after it returns the caller may run it again on a
   new stream.  last describes the block being handled: whether the strategy
   was evaluated for it, the intents it returned and those executed so far. *)

OrchestratorIntents == {Skip, SubmitBid(HighPrice, 1), Exit(1), Claim(<<1>>)}

IntentLists ==
    UNION {[1 .. n -> OrchestratorIntents] : n \in 0 .. MaxIntents}

NoResult == [tag |-> "none"]

NoBlock ==
    [op |-> "new", item |-> "none", evaluated |-> 0, returned |-> << >>,
     executed |-> << >>, result |-> "none", kind |-> "none", total |-> 0,
     subscribed |-> "none", watched |-> "none", calls |-> << >>, logs |-> << >>,
     phase |-> Phase("none", 0), trace |-> << >>]

NoStream == [mode |-> "none", items |-> 0]

counters == Counters(bids_submitted, bids_exited, tokens_claimed)

Init ==
    /\ config \in Configs
    /\ owner = AgentAddress
    /\ tracked_bids \in {<< >>, <<1>>}
    /\ cache = OrchestratorCache_new
    /\ bids_submitted = 0
    /\ bids_exited = 0
    /\ tokens_claimed = 0
    /\ pc = "start"
    /\ stream = NoStream
    /\ block = 0
    /\ intents = << >>
    /\ ret = NoResult
    /\ last = NoBlock
    /\ hist = [runs |-> 1, items |-> 0, acted |-> FALSE,
               initial |-> tracked_bids, submitted |-> 0, exited |-> 0,
               claimed |-> 0, life |-> "none"]

IntoStream ==
    /\ pc = "start"
    /\ \E subscribed \in SubscribeAnswers, watched \in WatchAnswers :
          LET r == into_stream(subscribed, watched) IN
          /\ IF r.ok
             THEN /\ stream' = [mode |-> r.val, items |-> 0]
                  /\ pc' = "await"
                  /\ ret' = ret
             ELSE /\ stream' = stream
                  /\ pc' = "returned"
                  /\ ret' = [tag |-> "Err", error |-> r.val]
          /\ last' = [NoBlock EXCEPT !.op = "into_stream",
                                     !.subscribed = subscribed, !.watched = watched,
                                     !.calls = r.calls]
    /\ UNCHANGED << config, owner, tracked_bids, cache, bids_submitted,
                    bids_exited, tokens_claimed, block, intents, hist >>

RunStreamEnded ==
    /\ pc = "await"
    /\ \E item \in StreamItems(stream.mode) :
          /\ run_next(item) = "finalize"
          /\ last' = [last EXCEPT !.op = "run", !.item = ItemKind(item)]
    /\ ret' = [tag |-> "Ok", result |-> finalize(counters, "BlockStreamEnded")]
    /\ pc' = "returned"
    /\ UNCHANGED << config, owner, tracked_bids, cache, bids_submitted,
                    bids_exited, tokens_claimed, stream, block, intents, hist >>

RunStreamFailed ==
    /\ pc = "await"
    /\ \E item \in StreamItems(stream.mode) :
          /\ run_next(item) = "propagate"
          /\ last' = [last EXCEPT !.op = "run", !.item = ItemKind(item)]
          /\ ret' = [tag |-> "Err", error |-> item[1].val]
    /\ pc' = "returned"
    /\ UNCHANGED << config, owner, tracked_bids, cache, bids_submitted,
                    bids_exited, tokens_claimed, stream, block, intents, hist >>

(* one block of the stream, for a strategy that answers with one of lists *)
HandleBlockOf(lists, max_items) ==
    /\ pc = "await"
    /\ hist.items < max_items
    /\ \E item \in StreamItems(stream.mode) :
          /\ run_next(item) = "handle_block"
          /\ block' = item[1].val
          /\ LET phase == compute_phase(config, block', cache.tokens_received) IN
             IF is_complete(tracked_bids, cache, phase)
             THEN /\ ret' = [tag |-> "Ok",
                             result |-> finalize(counters, "AllBidsProcessed")]
                  /\ pc' = "returned"
                  /\ intents' = << >>
                  /\ last' = [NoBlock EXCEPT !.op = "handle_block",
                                             !.item = ItemKind(item),
                                             !.phase = phase]
                  /\ hist' = [hist EXCEPT !.items = @ + 1]
             ELSE \E list \in lists :
                     /\ last' = [NoBlock EXCEPT !.op = "handle_block",
                                                !.item = ItemKind(item),
                                                !.evaluated = 1,
                                                !.returned = list,
                                                !.phase = phase]
                     /\ ret' = ret
                     /\ IF list = << >> \/ all_skip(list)
                        THEN /\ pc' = "await"
                             /\ intents' = << >>
                             /\ hist' = [hist EXCEPT !.items = @ + 1]
                        ELSE /\ pc' = "exec"
                             /\ intents' = list
                             /\ hist' = [hist EXCEPT !.items = @ + 1,
                                                     !.acted = TRUE]
    /\ stream' = [stream EXCEPT !.items = @ + 1]
    /\ UNCHANGED << config, owner, tracked_bids, cache, bids_submitted,
                    bids_exited, tokens_claimed >>

HandleBlock == HandleBlockOf(IntentLists, MaxItems)

(* how far bid 1 has come in this run: submitted by the run, then exited,
   then claimed *)
Life(life, result) ==
    IF ~result.ok THEN life
    ELSE IF life = "none" /\ result.val.kind = "BidSubmitted"
            /\ result.val.val.bid_id = 1
         THEN "submitted"
    ELSE IF life = "submitted" /\ result.val.kind = "BidExited"
            /\ result.val.val.bid_id = 1
         THEN "exited"
    ELSE IF life = "exited" /\ result.val.kind = "TokensClaimed"
            /\ \E i \in 1 .. Len(result.val.val.bid_ids) :
                  result.val.val.bid_ids[i] = 1
         THEN "claimed"
    ELSE life

(* observation of an intent's Result: the kind of its IntentResult and, for
   TokensClaimed, its total_tokens and the logs of its transaction *)
Observed(result) ==
    IF ~result.ok THEN [kind |-> "none", total |-> 0, logs |-> << >>]
    ELSE [kind |-> result.val.kind,
          total |-> IF result.val.kind = "TokensClaimed"
                    THEN result.val.val.total_tokens ELSE 0,
          logs |-> IF result.val.kind = "TokensClaimed"
                   THEN result.val.val.tx_logs ELSE << >>]

ExecuteIntent ==
    /\ pc = "exec"
    /\ LET t == take_intent(intents) IN
       \E o \in resolve_and_execute(cache, tracked_bids, config, owner,
                                    t.intent, block) :
          /\ cache' = o.cache
          /\ tracked_bids' = o.tracked_bids
          /\ IF o.result.ok
             THEN LET n == record_result(counters, o.result.val) IN
                  /\ bids_submitted' = n.bids_submitted
                  /\ bids_exited' = n.bids_exited
                  /\ tokens_claimed' = n.tokens_claimed
                  /\ intents' = t.rest
                  /\ pc' = IF t.rest = << >> THEN "await" ELSE "exec"
                  /\ ret' = ret
             ELSE /\ UNCHANGED << bids_submitted, bids_exited, tokens_claimed >>
                  /\ intents' = << >>
                  /\ pc' = "returned"
                  /\ ret' = [tag |-> "Err", error |-> o.result.val]
          /\ last' = [last EXCEPT !.op = "intent",
                                  !.executed = Append(@, t.intent),
                                  !.result = IF o.result.ok THEN "ok" ELSE "err",
                                  !.kind = Observed(o.result).kind,
                                  !.total = Observed(o.result).total,
                                  !.logs = Observed(o.result).logs,
                                  !.trace = o.trace]
          /\ hist' = [hist EXCEPT
                        !.submitted = @ + (IF Observed(o.result).kind = "BidSubmitted"
                                           THEN 1 ELSE 0),
                        !.exited = @ + (IF Observed(o.result).kind = "BidExited"
                                        THEN 1 ELSE 0),
                        !.claimed = @ + Observed(o.result).total,
                        !.life = Life(@, o.result)]
    /\ UNCHANGED << config, owner, stream, block >>

RunAgain ==
    /\ pc = "returned"
    /\ hist.runs < MaxRuns
    /\ pc' = "start"
    /\ stream' = NoStream
    /\ ret' = NoResult
    /\ last' = NoBlock
    /\ hist' = [hist EXCEPT !.runs = @ + 1, !.life = "none"]
    /\ block' = 0
    /\ UNCHANGED << config, owner, tracked_bids, cache, bids_submitted,
                    bids_exited, tokens_claimed, intents >>

Next ==
    \/ IntoStream
    \/ RunStreamEnded
    \/ RunStreamFailed
    \/ HandleBlock
    \/ ExecuteIntent
    \/ RunAgain

Spec == Init /\ [][Next]_vars


IsPrefix(a, b) == Len(a) <= Len(b) /\ a = SubSeq(b, 1, Len(a))

(* C1: an intent that fails (validator, hook, state read or transaction)
   does not abort run: no error is returned, and the remaining intents of
   the block are still executed. *)
C1_IntentFailureDoesNotAbortRun ==
    [][ last'.op = "intent" /\ last'.result = "err" =>
          /\ ret'.tag = "none"
          /\ pc' \in {"exec", "await"}
          /\ intents' = Tail(intents) ]_vars

(* C6: for a block taken from the stream the strategy is evaluated once,
   before any intent of the block is executed; the intents are executed one
   at a time in the returned order; the next block is read only after the
   last of them has finished. *)
C6_EvaluateOnceThenInOrder ==
    [][ /\ (last'.op = "intent" =>
              /\ pc = "exec"
              /\ last.evaluated = 1
              /\ last'.evaluated = 1
              /\ last'.returned = last.returned
              /\ IsPrefix(last'.executed, last'.returned)
              /\ Len(last'.executed) = Len(last.executed) + 1
              /\ (last'.result = "ok" =>
                    last'.returned = last'.executed \o intents'))
        /\ (stream'.items = stream.items + 1 =>
              /\ pc = "await"
              /\ intents = << >>
              /\ (last.op = "intent" => last.executed = last.returned)
              /\ last'.executed = << >>) ]_vars

(* A first block's SubmitBid was executed and confirmed, the second block
   was then read, and its two different intents were both executed. *)
C6_Witness ==
    /\ stream.items = 2
    /\ hist.runs = 1
    /\ last.op = "intent"
    /\ Len(last.executed) = 2
    /\ last.executed[1] # last.executed[2]
    /\ last.result = "ok"
    /\ bids_submitted = 2

(* C7: handle_block returns Finished(AllBidsProcessed), without evaluating
   the strategy, exactly when tracked_bids is empty and the phase computed
   from the config, the block and cache.tokens_received is Claimable, or is
   Ended while cache.graduated is NotGraduated; otherwise the strategy is
   evaluated for the block and the run goes on. *)
C7_CompleteExactlyWhenNothingLeft ==
    [][ last'.op = "handle_block" =>
          LET phase == compute_phase(config, block', cache.tokens_received)
              nothing_left ==
                  /\ tracked_bids = << >>
                  /\ \/ phase.name = "Claimable"
                     \/ phase.name = "Ended" /\ cache.graduated = "NotGraduated"
          IN  IF nothing_left
              THEN /\ ret' = [tag |-> "Ok",
                              result |-> [bids_submitted |-> bids_submitted,
                                          bids_exited |-> bids_exited,
                                          tokens_claimed |-> tokens_claimed,
                                          reason |-> "AllBidsProcessed"]]
                   /\ last'.evaluated = 0
                   /\ pc' = "returned"
              ELSE /\ ret'.tag = "none"
                   /\ last'.evaluated = 1
                   /\ pc' \in {"await", "exec"} ]_vars

(* A block in the Ended phase with nothing tracked finished the run. *)
C7_Witness ==
    /\ last.op = "handle_block"
    /\ ret.tag = "Ok"
    /\ ret.result.reason = "AllBidsProcessed"
    /\ block = EndBlock
    /\ cache.tokens_received = "Received"
    /\ cache.graduated = "NotGraduated"

(* C8: when the strategy has returned only Skip (or nothing) for every block
   and the stream then ends, run returns Ok with reason BlockStreamEnded and
   all three counters zero. *)
C8_SkipOnlyEndsWithZeroCounters ==
    (~hist.acted /\ last.op = "run" /\ last.item = "end") =>
        ret = [tag |-> "Ok",
               result |-> [bids_submitted |-> 0, bids_exited |-> 0,
                           tokens_claimed |-> 0, reason |-> "BlockStreamEnded"]]

(* Two blocks were answered with Skip and then the stream ended. *)
C8_Witness ==
    /\ ~hist.acted
    /\ last.op = "run"
    /\ last.item = "end"
    /\ stream.items = 2
    /\ last.returned = <<Skip>>
    /\ ret.tag = "Ok"

(* C9: when the stream yields an Err item, run returns that error at once:
   the strategy is not evaluated, no intent is executed, nothing of the
   orchestrator changes, no further item is read and no result is made. *)
C9_StreamErrorEndsRun ==
    [][ /\ (pc = "await" /\ last'.item = "err" =>
              /\ ret' = [tag |-> "Err",
                         error |-> [kind |-> "BlockStream", err |-> "Transport"]]
              /\ pc' = "returned"
              /\ last'.evaluated = last.evaluated
              /\ last'.executed = last.executed
              /\ UNCHANGED << tracked_bids, cache, bids_submitted, bids_exited,
                              tokens_claimed, stream, block, intents >>)
        /\ (pc = "returned" /\ last.item = "err" =>
              pc' = "start" /\ stream'.items = 0) ]_vars

(* The poller failed after a block had been handled. *)
C9_Witness ==
    /\ last.op = "run"
    /\ last.item = "err"
    /\ stream.mode = "polling"
    /\ stream.items = 1
    /\ last.evaluated = 1
    /\ ret.tag = "Err"

(* C10: the block numbers handed to handle_block from one stream are
   strictly increasing, whichever path built the stream. *)
C10_BlocksStrictlyIncreasing ==
    [][ (last'.op = "handle_block" /\ stream.items >= 1) => block' > block ]_vars


----------------------------------------------------------------------------
(* Claims on IntentExecutor::execute, checked under SpecExec *)

(* the kinds of error a step of a pipeline can end in *)
StepErrors(step) ==
    CASE step \in {"fetch_checkpoint", "fetch_token_balance", "fetch_graduation",
                   "fetch_bids", "prepare_exit_partially_filled"} -> {"State"}
      [] step \in {"validate_submit_bid", "validate_exit_bid",
                   "validate_exit_partially_filled", "validate_claim"}
            -> {"Validation"}
      [] step = "prepare_bid" -> {"State", "Validation", "Hook"}
      [] step = "hook.validate" -> {"Hook"}
      [] OTHER -> {"Transaction"}

ResultKind(intent) ==
    CASE intent.kind = "SubmitBid" -> "BidSubmitted"
      [] intent.kind = "Exit" -> "BidExited"
      [] OTHER -> "TokensClaimed"

(* C11: execute always returns Success(result) or Failed{intent, error};
   Failed carries the intent that was passed in and the error of the step
   the pipeline stopped at (no step follows it), Success the result of the
   intent's kind after the pipeline's write. *)
C11_ExecuteWrapsEveryError ==
    last.op = "execute" =>
       \/ /\ last.outcome.tag = "Success"
          /\ last.outcome.result.kind = ResultKind(last.intent)
          /\ last.trace # << >>
          /\ Sent(last.trace) = {Len(last.trace)}
       \/ /\ last.outcome.tag = "Failed"
          /\ last.outcome.intent = last.intent
          /\ LET e == last.outcome.error
                 n == Len(last.trace)
             IN  /\ e.kind \in {"Validation", "Hook", "State", "Transaction"}
                 /\ Sent(last.trace) \subseteq {n}
                 /\ \/ e.err \in {"FinalCheckpointNotCached", "BidNotFound"}
                    \/ n > 0 /\ e.kind \in StepErrors(last.trace[n])
                 /\ (last.validated \notin {"none", "Ok"} =>
                        e = [kind |-> "Validation", err |-> last.validated])

(* An Exit whose transaction reverted came back as Failed with the Exit. *)
C11_Witness ==
    /\ last.op = "execute"
    /\ last.intent.kind = "Exit"
    /\ last.outcome.tag = "Failed"
    /\ last.outcome.intent = last.intent
    /\ last.outcome.error = [kind |-> "Transaction", err |-> "Reverted"]


----------------------------------------------------------------------------
(* Claims on the orchestrator's counters, checked under Spec *)

(* C12: at every point bids_submitted is the number of SubmitBid intents
   that succeeded, which is the number of entries appended to tracked_bids;
   bids_exited the number of Exit intents that succeeded; tokens_claimed the
   sum of total_tokens of the Claim intents that succeeded.  A failed intent
   and a Skip change no counter, a successful result changes its own counter
   and no other, and no other step changes a counter. *)
C12_CountersTallySuccesses ==
    [][ /\ bids_submitted' = hist'.submitted
        /\ bids_exited' = hist'.exited
        /\ tokens_claimed' = hist'.claimed
        /\ Len(tracked_bids') = Len(hist'.initial) + bids_submitted'
        /\ IF last'.op = "intent" /\ pc = "exec"
           THEN LET intent == last'.executed[Len(last'.executed)] IN
                CASE last'.result = "err" \/ intent.kind = "Skip" ->
                        UNCHANGED << bids_submitted, bids_exited, tokens_claimed >>
                  [] last'.result = "ok" /\ intent.kind = "SubmitBid" ->
                        /\ bids_submitted' = bids_submitted + 1
                        /\ UNCHANGED << bids_exited, tokens_claimed >>
                  [] last'.result = "ok" /\ intent.kind = "Exit" ->
                        /\ bids_exited' = bids_exited + 1
                        /\ UNCHANGED << bids_submitted, tokens_claimed >>
                  [] OTHER ->
                        /\ tokens_claimed' = tokens_claimed + last'.total
                        /\ UNCHANGED << bids_submitted, bids_exited >>
           ELSE UNCHANGED << bids_submitted, bids_exited, tokens_claimed >>
      ]_vars

(* A submit, an exit and a claim have each succeeded once. *)
C12_Witness ==
    /\ bids_submitted = 1
    /\ bids_exited = 1
    /\ tokens_claimed > 0
    /\ last.op = "intent"


----------------------------------------------------------------------------
(* SpecValidate: the four validators of validation.rs applied to any state
   and argument.  AuctionState's fields are public, so a validator can be
   handed a state whose phase was not computed from its block. *)

Phases ==
    {Phase("PreStart", 1), Phase("PreTokens", 0), Phase("Active", 1),
     Phase("Ended", 1), Phase("Claimable", 0)}

AuctionStates ==
    [current_block : BlockNumbers, phase : Phases, checkpoint : Checkpoints,
     graduation : GraduationStatus, tokens_received : TokenDepositStatus]

(* prices at the floor, off the tick lattice, valid, and above the maximum *)
InputPrices ==
    {FloorPrice, FloorPrice + 1, LowPrice, HighPrice, HighPrice + TickSpacing}

SubmitBidInputs ==
    [max_price : InputPrices, amount : {0, 1},
     owner : {ZeroAddress, AgentAddress}]

BidLists ==
    {<< >>} \cup {<<b>> : b \in BidsOf(1)}
            \cup {<<a, b>> : a \in BidsOf(1), b \in BidsOf(MaxBidId)}

ValidatorArguments ==
    {[kind |-> "input", input |-> i] : i \in SubmitBidInputs}
        \cup {[kind |-> "bid", bid |-> b] : b \in BidsOf(1)}
        \cup {[kind |-> "bids", bids |-> l, expected_owner |-> AgentAddress] :
              l \in BidLists}

InitValidate ==
    /\ config \in Configs
    /\ owner = AgentAddress
    /\ tracked_bids = << >>
    /\ cache = ExecutorCache_new
    /\ pc = "input"
    /\ \E st \in AuctionStates, a \in ValidatorArguments :
          last = [op |-> "input", state |-> st, arg |-> a, verdict |-> "none"]
    /\ hist = << >>
    /\ Idle

ValidateSubmitBid ==
    /\ pc = "input"
    /\ last.arg.kind = "input"
    /\ last' = [last EXCEPT !.op = "validate_submit_bid",
                  !.verdict = validate_submit_bid(last.arg.input, last.state, config)]
    /\ pc' = "done"
    /\ UNCHANGED << config, owner, tracked_bids, cache, hist >>
    /\ IdleUnchanged

ValidateExitBid ==
    /\ pc = "input"
    /\ last.arg.kind = "bid"
    /\ last' = [last EXCEPT !.op = "validate_exit_bid",
                  !.verdict = validate_exit_bid(last.arg.bid, last.state, config)]
    /\ pc' = "done"
    /\ UNCHANGED << config, owner, tracked_bids, cache, hist >>
    /\ IdleUnchanged

ValidateExitPartiallyFilled ==
    /\ pc = "input"
    /\ last.arg.kind = "bid"
    /\ last' = [last EXCEPT !.op = "validate_exit_partially_filled",
                  !.verdict = validate_exit_partially_filled(last.arg.bid,
                                                             last.state, config)]
    /\ pc' = "done"
    /\ UNCHANGED << config, owner, tracked_bids, cache, hist >>
    /\ IdleUnchanged

ValidateClaim ==
    /\ pc = "input"
    /\ last.arg.kind = "bids"
    /\ last' = [last EXCEPT !.op = "validate_claim",
                  !.verdict = validate_claim(last.arg.bids, last.arg.expected_owner,
                                             last.state, config)]
    /\ pc' = "done"
    /\ UNCHANGED << config, owner, tracked_bids, cache, hist >>
    /\ IdleUnchanged

(* Bid::status against the clearing price of the state's checkpoint *)
BidStatus ==
    /\ pc = "input"
    /\ last.arg.kind = "bid"
    /\ last' = [last EXCEPT !.op = "status",
                  !.verdict = status(last.arg.bid,
                                     last.state.checkpoint.clearing_price)]
    /\ pc' = "done"
    /\ UNCHANGED << config, owner, tracked_bids, cache, hist >>
    /\ IdleUnchanged

(* AuctionState::new on the block, checkpoint and statuses of the input: the
   phase is derived by compute_phase *)
NewAuctionState ==
    /\ pc = "input"
    /\ last.arg.kind = "bid"
    /\ last' = [last EXCEPT !.op = "compute_phase",
                  !.state = AuctionState_new(last.state.current_block,
                                             last.state.checkpoint,
                                             last.state.graduation,
                                             last.state.tokens_received, config)]
    /\ pc' = "done"
    /\ UNCHANGED << config, owner, tracked_bids, cache, hist >>
    /\ IdleUnchanged

NextValidate ==
    \/ ValidateSubmitBid
    \/ NewAuctionState
    \/ BidStatus
    \/ ValidateExitBid
    \/ ValidateExitPartiallyFilled
    \/ ValidateClaim

SpecValidate == InitValidate /\ [][NextValidate]_vars

(* C26: Bid::status is total over the three statuses: it answers ITM exactly
   when max_price is above the clearing price, ATM exactly when the two are
   equal, and OTM exactly when max_price is below it. *)
C26_StatusIsTotal ==
    last.op = "status" =>
        LET max_price == last.arg.bid.max_price
            clearing  == last.state.checkpoint.clearing_price
        IN  /\ last.verdict \in {"ITM", "ATM", "OTM"}
            /\ (last.verdict = "ITM") <=> (max_price > clearing)
            /\ (last.verdict = "ATM") <=> (max_price = clearing)
            /\ (last.verdict = "OTM") <=> (max_price < clearing)

(* C35: compute_phase is total and returns exactly one phase: PreStart with
   start_block - block iff block < start_block; otherwise PreTokens iff the
   token status is not Received; otherwise Active with end_block - block iff
   block < end_block, Ended with claim_block - block iff end_block <= block <
   claim_block, and Claimable iff block >= claim_block; every carried block
   count is at least 1, so no subtraction goes below zero. *)
C35_ComputePhaseIsTotal ==
    last.op = "compute_phase" =>
        LET current == last.state.current_block
            ready == last.state.tokens_received = "Received"
            started == current >= config.start_block
            phase == last.state.phase
        IN  /\ phase.name \in {"PreStart", "PreTokens", "Active", "Ended", "Claimable"}
            /\ (phase.name = "PreStart") <=> ~started
            /\ (phase.name = "PreTokens") <=> (started /\ ~ready)
            /\ (phase.name = "Active") <=>
                    (started /\ ready /\ current < config.end_block)
            /\ (phase.name = "Ended") <=>
                    (started /\ ready /\ config.end_block <= current
                     /\ current < config.claim_block)
            /\ (phase.name = "Claimable") <=>
                    (started /\ ready /\ current >= config.end_block
                     /\ current >= config.claim_block)
            /\ phase.name = "PreStart" => phase.n = config.start_block - current
            /\ phase.name = "Active" => phase.n = config.end_block - current
            /\ phase.name = "Ended" => phase.n = config.claim_block - current
            /\ phase.name \in {"PreStart", "Active", "Ended"} => phase.n >= 1

(* C35 witness: the phase of the last block before claim_block was computed
   with the tokens received *)
C35_Witness ==
    /\ last.op = "compute_phase"
    /\ last.state.tokens_received = "Received"
    /\ last.state.current_block = config.claim_block - 1
    /\ last.state.phase = Phase("Ended", 1)

(* C26 witness: a bid priced exactly at the clearing price was classified *)
C26_Witness ==
    /\ last.op = "status"
    /\ last.arg.bid.max_price = last.state.checkpoint.clearing_price
    /\ last.verdict = "ATM"

(* the error of the first check of a list that fails, Ok when none does;
   a check is a pair << fails, error >> *)
FirstFailing(checks) ==
    IF \E i \in 1 .. Len(checks) : checks[i][1]
    THEN checks[CHOOSE i \in 1 .. Len(checks) :
                   checks[i][1] /\ \A j \in 1 .. (i - 1) : ~checks[j][1]][2]
    ELSE "Ok"


(* C13: validate_submit_bid returns the error of the first check that fails,
   in the order: block < start_block, block >= end_block, phase not Active,
   tokens not Received, zero amount, zero owner, price outside
   (floor_price, max_bid_price] or off the tick lattice, checkpoint sold
   out, max_price <= clearing price; and Ok exactly when none fails. *)
C13_SubmitChecksInOrder ==
    last.op = "validate_submit_bid" =>
        LET st == last.state
            i == last.arg.input
        IN  last.verdict = FirstFailing(<<
                <<st.current_block < config.start_block, "AuctionNotStarted">>,
                <<st.current_block >= config.end_block, "AuctionIsOver">>,
                <<st.phase.name # "Active", "AuctionNotActive">>,
                <<st.tokens_received # "Received", "TokensNotReceived">>,
                <<i.amount = 0, "AmountTooSmall">>,
                <<i.owner = ZeroAddress, "OwnerIsZeroAddress">>,
                <<\/ i.max_price <= config.floor_price
                  \/ i.max_price > config.max_bid_price
                  \/ i.max_price % config.tick_spacing # 0, "InvalidPrice">>,
                <<st.checkpoint.cumulative_mps >= MpsFull, "AuctionSoldOut">>,
                <<i.max_price <= st.checkpoint.clearing_price,
                  "BidBelowClearingPrice">> >>)

(* A bid at the clearing price against a sold-out checkpoint was rejected
   as AuctionSoldOut. *)
C13_Witness ==
    /\ last.op = "validate_submit_bid"
    /\ last.verdict = "AuctionSoldOut"
    /\ last.arg.input.max_price = last.state.checkpoint.clearing_price

(* C14: validate_exit_partially_filled rejects an exited bid with
   BidAlreadyExited first; otherwise by (graduated, ended): (true, false) is
   Ok for OTM and BidNotOutbid for ATM and ITM; (true, true) is Ok for ATM
   and OTM and BidIsITM for ITM; (false, true) is UseExitBidForRefund;
   (false, false) is CannotPartiallyExitBeforeGraduation. *)
C14_PartialExitTable ==
    last.op = "validate_exit_partially_filled" =>
        LET st == last.state
            b == last.arg.bid
            clearing == st.checkpoint.clearing_price
            graduated == st.graduation = "Graduated"
            ended == st.current_block >= config.end_block
        IN  last.verdict =
              IF b.exited_block # None THEN "BidAlreadyExited"
              ELSE CASE graduated /\ ~ended ->
                          IF b.max_price < clearing THEN "Ok" ELSE "BidNotOutbid"
                     [] graduated /\ ended ->
                          IF b.max_price > clearing THEN "BidIsITM" ELSE "Ok"
                     [] ~graduated /\ ended -> "UseExitBidForRefund"
                     [] OTHER -> "CannotPartiallyExitBeforeGraduation"

(* An exited bid of an auction that ended without graduating was rejected
   as BidAlreadyExited, not UseExitBidForRefund. *)
C14_Witness ==
    /\ last.op = "validate_exit_partially_filled"
    /\ last.arg.bid.exited_block # None
    /\ last.state.graduation = "NotGraduated"
    /\ last.state.current_block >= config.end_block
    /\ last.verdict = "BidAlreadyExited"

(* C15: validate_exit_bid returns the first failing of: block < end_block
   (AuctionNotOver), bid exited (BidAlreadyExited), graduated and bid not
   ITM against the state's clearing price (BidNotITM); Ok otherwise, so a
   non-graduated auction past end_block accepts every unexited bid. *)
C15_ExitChecksInOrder ==
    last.op = "validate_exit_bid" =>
        LET st == last.state
            b == last.arg.bid
        IN  /\ last.verdict = FirstFailing(<<
                  <<st.current_block < config.end_block, "AuctionNotOver">>,
                  <<b.exited_block # None, "BidAlreadyExited">>,
                  <<st.graduation = "Graduated"
                      /\ b.max_price <= st.checkpoint.clearing_price,
                    "BidNotITM">> >>)
            /\ ((/\ st.graduation = "NotGraduated"
                 /\ st.current_block >= config.end_block
                 /\ b.exited_block = None)
                  => last.verdict = "Ok")

(* An unexited bid below the clearing price was accepted past end_block
   because the auction had not graduated. *)
C15_Witness ==
    /\ last.op = "validate_exit_bid"
    /\ last.state.graduation = "NotGraduated"
    /\ last.arg.bid.max_price < last.state.checkpoint.clearing_price
    /\ last.verdict = "Ok"

(* C16: validate_claim returns ClaimBlockNotReached when block < claim_block,
   else NotGraduated when not graduated, else the error of the first bid in
   input order that fails, each bid checked in the order not exited
   (BidNotExited), zero tokens_filled (NoTokensToClaim), other owner
   (OwnerMismatch); Ok exactly when none of these holds. *)
C16_ClaimChecksInOrder ==
    last.op = "validate_claim" =>
        LET st == last.state
            bids == last.arg.bids
            PerBid(b) ==
                <<  <<b.exited_block = None, "BidNotExited">>,
                    <<b.tokens_filled = 0, "NoTokensToClaim">>,
                    <<b.owner # last.arg.expected_owner, "OwnerMismatch">> >>
            AllBids ==
                IF Len(bids) = 0 THEN << >>
                ELSE IF Len(bids) = 1 THEN PerBid(bids[1])
                ELSE PerBid(bids[1]) \o PerBid(bids[2])
        IN  /\ Len(bids) <= 2
            /\ last.verdict = FirstFailing(
                  <<  <<st.current_block < config.claim_block,
                        "ClaimBlockNotReached">>,
                      <<st.graduation # "Graduated", "NotGraduated">> >>
                  \o AllBids)
            /\ (last.verdict = "Ok" <=>
                  /\ st.current_block >= config.claim_block
                  /\ st.graduation = "Graduated"
                  /\ \A k \in 1 .. Len(bids) :
                        /\ bids[k].exited_block # None
                        /\ bids[k].tokens_filled > 0
                        /\ bids[k].owner = last.arg.expected_owner)

(* The first bid had no tokens and another owner, the second was not exited:
   the first bid's NoTokensToClaim was returned. *)
C16_Witness ==
    /\ last.op = "validate_claim"
    /\ Len(last.arg.bids) = 2
    /\ last.arg.bids[1].tokens_filled = 0
    /\ last.arg.bids[1].owner # last.arg.expected_owner
    /\ last.arg.bids[2].exited_block = None
    /\ last.verdict = "NoTokensToClaim"


----------------------------------------------------------------------------
(* Claim without a final checkpoint (SpecExec) *)

ClaimWithoutFinalCheckpoint ==
    /\ last'.op = "execute"
    /\ last'.intent.kind = "Claim"
    /\ is_none(cache.final_checkpoint)

(* C17 as stated: a Claim executed while cache.final_checkpoint is absent
   fails with FinalCheckpointNotCached and sends no transaction, whatever
   the block, the graduation status and the bids; a Claim never fetches or
   caches a checkpoint. *)
C17_AbsentCheckpointAlwaysNotCached ==
    [][ /\ ClaimWithoutFinalCheckpoint =>
            /\ last'.outcome = Failed(last'.intent,
                                      [kind |-> "State",
                                       err |-> "FinalCheckpointNotCached"])
            /\ Sent(last'.trace) = {}
        /\ (last'.op = "execute" /\ last'.intent.kind = "Claim" =>
            /\ \A i \in 1 .. Len(last'.trace) : last'.trace[i] # "fetch_checkpoint"
            /\ cache'.final_checkpoint = cache.final_checkpoint) ]_vars

(* C17: a Claim executed while cache.final_checkpoint is absent fails
   without reaching validate_claim and sends no transaction; its error is
   FinalCheckpointNotCached unless the graduation read or the bid read
   failed first, and then it is that read's StateError; a Claim never
   fetches or caches a checkpoint. *)
C17_AbsentCheckpointFailsBeforeValidation ==
    [][ /\ ClaimWithoutFinalCheckpoint =>
            /\ last'.outcome.tag = "Failed"
            /\ last'.outcome.intent = last'.intent
            /\ last'.outcome.error.kind = "State"
            /\ \/ last'.outcome.error.err = "FinalCheckpointNotCached"
               \/ /\ last'.outcome.error = StateError.val
                  /\ last'.trace # << >>
                  /\ last'.trace[Len(last'.trace)]
                        \in {"fetch_graduation", "fetch_bids"}
            /\ last'.validated = "none"
            /\ Sent(last'.trace) = {}
        /\ (last'.op = "execute" /\ last'.intent.kind = "Claim" =>
            /\ \A i \in 1 .. Len(last'.trace) : last'.trace[i] # "fetch_checkpoint"
            /\ cache'.final_checkpoint = cache.final_checkpoint) ]_vars

(* A Claim at the claim block learned that the auction graduated, read its
   bids, and failed for want of the final checkpoint. *)
C17_Witness ==
    /\ last.op = "execute"
    /\ last.intent = Claim(<<1>>)
    /\ last.block >= config.claim_block
    /\ last.trace = <<"fetch_graduation", "fetch_bids">>
    /\ cache.graduated = "Graduated"
    /\ is_none(cache.final_checkpoint)
    /\ last.outcome = Failed(last.intent, [kind |-> "State",
                                           err |-> "FinalCheckpointNotCached"])


----------------------------------------------------------------------------
(* The submit pipeline's step order (SpecExec) *)

SubmitSteps == <<"validate_submit_bid", "prepare_bid", "hook.validate", "submitBid">>

(* C18: the submit pipeline runs validate_submit_bid, prepare_bid,
   hook.validate, submit_bid in this order, each step only directly after
   the one before it; when hook.validate rejects, submit_bid is not invoked,
   no transaction is sent, tracked_bids is unchanged and the intent fails
   with the hook's error. *)
C18_SubmitStepsInOrder ==
    [][ last'.op = "execute" /\ last'.intent.kind = "SubmitBid" =>
          LET tr == last'.trace
              n == Len(tr)
              HookError == [kind |-> "Hook", err |-> "Rejected"]
          IN  /\ \A i \in 1 .. n : \A k \in 2 .. 4 :
                    tr[i] = SubmitSteps[k] => i > 1 /\ tr[i - 1] = SubmitSteps[k - 1]
              /\ \A i \in 1 .. n : tr[i] = "submitBid" => i = n
              /\ (last'.outcome.tag = "Success" => n >= 4 /\ tr[n] = "submitBid")
              /\ (n > 0 /\ tr[n] = "hook.validate" =>
                    last'.outcome = Failed(last'.intent, HookError))
              /\ (last'.outcome.tag = "Failed" /\ last'.outcome.error = HookError =>
                    /\ Sent(tr) = {}
                    /\ tracked_bids' = tracked_bids) ]_vars

(* hook.validate rejected a prepared bid after an earlier bid had been
   confirmed: the trace stops at the hook and tracked_bids holds only the
   earlier bid. *)
C18_Witness ==
    /\ last.op = "execute"
    /\ last.intent.kind = "SubmitBid"
    /\ Len(last.trace) >= 3
    /\ last.trace[Len(last.trace)] = "hook.validate"
    /\ last.trace[Len(last.trace) - 1] = "prepare_bid"
    /\ last.trace[Len(last.trace) - 2] = "validate_submit_bid"
    /\ last.outcome.tag = "Failed"
    /\ last.outcome.error = [kind |-> "Hook", err |-> "Rejected"]
    /\ Len(tracked_bids) = Len(hist.initial) + 1


----------------------------------------------------------------------------
(* When the final checkpoint enters the cache (SpecExec) *)

(* C19: cache.final_checkpoint is populated only during an intent executed
   at a block >= end_block that read a checkpoint; an intent executed at a
   block < end_block leaves it as it was, so a checkpoint read before
   end_block is never retained. *)
C19_FinalCheckpointOnlyPastEnd ==
    [][ last'.op = "execute" =>
          /\ (cache'.final_checkpoint # cache.final_checkpoint =>
                /\ is_none(cache.final_checkpoint)
                /\ is_some(cache'.final_checkpoint)
                /\ last'.block >= config.end_block
                /\ \E i \in 1 .. Len(last'.trace) : last'.trace[i] = "fetch_checkpoint")
          /\ (last'.block < config.end_block =>
                cache'.final_checkpoint = cache.final_checkpoint) ]_vars

(* The second intent, a SubmitBid at end_block, was rejected as
   AuctionIsOver, and the checkpoint it read is the cached final one. *)
C19_Witness ==
    /\ last.op = "execute"
    /\ last.calls = 2
    /\ last.intent.kind = "SubmitBid"
    /\ last.block = config.end_block
    /\ last.trace[1] = "fetch_checkpoint"
    /\ last.validated = "AuctionIsOver"
    /\ is_some(cache.final_checkpoint)

(* SpecReads: the executor on one bid, keeping what each pipeline read *)
ReadIntents == {SubmitBid(HighPrice, 1), Exit(1), Claim(<<1>>)}

ExecExecuteRead == ExecExecuteOf(ReadIntents, TRUE)

SpecReads == InitExec /\ [][ExecExecuteRead]_vars

Calls(trace, call) == \E i \in DOMAIN trace : trace[i] = call

(* C28: in the Exit pipeline exitBid is sent only for a bid that is not
   exited, whose max_price is above the clearing price of the checkpoint the
   pipeline used, at a block >= end_block; exitPartiallyFilledBid is sent only
   for a bid that is not exited, whose max_price is at or below that clearing
   price, while the auction is graduated, and before end_block only when
   max_price is strictly below the clearing price; no other Exit sends an exit
   transaction, and an Exit never sends both. *)
C28_ExitTransactionByStatus ==
    last.op = "execute" /\ last.intent.kind = "Exit" =>
        LET sent_exit == Calls(last.trace, "exitBid")
            sent_partial == Calls(last.trace, "exitPartiallyFilledBid")
            bid == last.read[1].bids[1]
            state == last.read[1].state
            clearing == state.checkpoint.clearing_price
        IN  /\ ~(sent_exit /\ sent_partial)
            /\ sent_exit \/ sent_partial =>
                /\ is_some(last.read)
                /\ bid.id = last.intent.bid_id
                /\ is_none(bid.exited_block)
                /\ state.current_block = last.block
            /\ sent_exit =>
                /\ bid.max_price > clearing
                /\ last.block >= config.end_block
            /\ sent_partial =>
                /\ bid.max_price <= clearing
                /\ state.graduation = "Graduated"
                /\ (last.block < config.end_block => bid.max_price < clearing)

(* C28 witness: an Exit before end_block sent exitPartiallyFilledBid *)
C28_Witness ==
    /\ last.op = "execute"
    /\ last.intent.kind = "Exit"
    /\ last.block < config.end_block
    /\ Calls(last.trace, "exitPartiallyFilledBid")
    /\ last.read[1].bids[1].max_price < last.read[1].state.checkpoint.clearing_price
    /\ ~Calls(last.trace, "exitBid")
    /\ last.outcome.tag = "Success"


(* C32: at a block >= end_block with the auction not graduated, an Exit for
   a bid that is not exited and whose max_price is at or below the clearing
   price of the checkpoint used is rejected by validate_exit_partially_filled
   with UseExitBidForRefund; validate_exit_bid is not run and no transaction
   is sent. *)
C32_UngraduatedExitAtOrBelowClearing ==
    last.op = "execute" /\ last.intent.kind = "Exit" /\ is_some(last.read) =>
        LET bid == last.read[1].bids[1]
            state == last.read[1].state
        IN  /\ last.block >= config.end_block
            /\ state.graduation = "NotGraduated"
            /\ is_none(bid.exited_block)
            /\ bid.max_price <= state.checkpoint.clearing_price
            => /\ last.validated = "UseExitBidForRefund"
               /\ last.outcome.tag = "Failed"
               /\ last.outcome.error = [kind |-> "Validation",
                                        err |-> "UseExitBidForRefund"]
               /\ Sent(last.trace) = {}
               /\ ~Calls(last.trace, "validate_exit_bid")
               /\ ~Calls(last.trace, "exitBid")

(* C32 witness: past end_block, not graduated, a bid priced exactly at the
   clearing price was refused with UseExitBidForRefund *)
C32_Witness ==
    /\ last.op = "execute"
    /\ last.intent.kind = "Exit"
    /\ last.block >= config.end_block
    /\ is_some(last.read)
    /\ last.read[1].state.graduation = "NotGraduated"
    /\ is_none(last.read[1].bids[1].exited_block)
    /\ last.read[1].bids[1].max_price = last.read[1].state.checkpoint.clearing_price
    /\ last.validated = "UseExitBidForRefund"

(* C40: the Exit pipeline never returns BidNotITM, BidIsITM or
   FinalCheckpointNotCached: validate_exit_bid is run exactly for the bids
   whose max_price is above the clearing price of the checkpoint that the
   validator is then given, validate_exit_partially_filled for the others,
   and the cached checkpoint is used only when one is cached. *)
C40_DeadExitErrors ==
    last.op = "execute" /\ last.intent.kind = "Exit" =>
        /\ last.validated \notin {"BidNotITM", "BidIsITM"}
        /\ last.outcome.tag = "Failed" =>
              /\ last.outcome.error.err \notin {"BidNotITM", "BidIsITM"}
              /\ last.outcome.error.err # "FinalCheckpointNotCached"
        /\ is_some(last.read) =>
              LET itm == last.read[1].bids[1].max_price
                            > last.read[1].state.checkpoint.clearing_price
              IN  /\ Calls(last.trace, "validate_exit_bid") <=> itm
                  /\ Calls(last.trace, "validate_exit_partially_filled") <=> ~itm
        /\ ~Calls(last.trace, "fetch_checkpoint") =>
              /\ last.block >= config.end_block
              /\ is_some(cache.final_checkpoint)
              /\ is_some(last.read) =>
                    last.read[1].state.checkpoint = cache.final_checkpoint[1]

(* C40 witness: a second Exit past end_block took the cached checkpoint, the
   auction was graduated, and the bid at the clearing price passed
   validate_exit_partially_filled *)
C40_Witness ==
    /\ last.op = "execute"
    /\ last.calls = 2
    /\ last.intent.kind = "Exit"
    /\ ~Calls(last.trace, "fetch_checkpoint")
    /\ is_some(last.read)
    /\ last.read[1].state.graduation = "Graduated"
    /\ last.read[1].bids[1].max_price = last.read[1].state.checkpoint.clearing_price
    /\ Calls(last.trace, "validate_exit_partially_filled")
    /\ last.validated = "Ok"

(* C33: what an intent wrote to the cache stays when the intent fails
   later.  A SubmitBid at a block >= end_block that read its checkpoint is
   rejected with AuctionIsOver and leaves final_checkpoint present (the
   checkpoint it read when none was cached before) and tokens_received at
   Received when Received was read or cached; an Exit or Claim that failed
   after Graduated was read or cached leaves graduated at Graduated; and no
   failed intent takes a cached fact away. *)
C33_CacheKeptOnFailure ==
    [][ last'.op = "execute" /\ last'.outcome.tag = "Failed" =>
          /\ cache.tokens_received = "Received" => cache'.tokens_received = "Received"
          /\ cache.graduated = "Graduated" => cache'.graduated = "Graduated"
          /\ is_some(cache.final_checkpoint) =>
                cache'.final_checkpoint = cache.final_checkpoint
          /\ is_some(last'.read) =>
                LET state == last'.read[1].state IN
                /\ state.tokens_received = "Received" =>
                      cache'.tokens_received = "Received"
                /\ state.graduation = "Graduated" => cache'.graduated = "Graduated"
                /\ last'.intent.kind = "SubmitBid"
                      /\ last'.block >= config.end_block =>
                      /\ last'.validated = "AuctionIsOver"
                      /\ is_some(cache'.final_checkpoint)
                      /\ is_none(cache.final_checkpoint) =>
                            cache'.final_checkpoint = Some(state.checkpoint) ]_vars

(* C33 witness: the first intent, a SubmitBid past end_block that read
   Received, was rejected with AuctionIsOver, and the cache holds the
   checkpoint and the token status it read *)
C33_Witness ==
    /\ last.op = "execute"
    /\ last.calls = 1
    /\ last.intent.kind = "SubmitBid"
    /\ last.block >= config.end_block
    /\ last.outcome.tag = "Failed"
    /\ last.validated = "AuctionIsOver"
    /\ is_some(last.read)
    /\ cache.final_checkpoint = Some(last.read[1].state.checkpoint)
    /\ cache.tokens_received = "Received"

(* C37: the SubmitBid pipeline never rejects with TokensNotReceived: the
   phase of the state it validates is derived from the very token status the
   state carries, so when that status is not Received at a block in
   [start_block, end_block) the rejection is AuctionNotActive. *)
C37_TokensNotReceivedNeverReported ==
    last.op = "execute" /\ last.intent.kind = "SubmitBid" =>
        /\ last.validated # "TokensNotReceived"
        /\ last.outcome.tag = "Failed" => last.outcome.error.err # "TokensNotReceived"
        /\ is_some(last.read) =>
              LET state == last.read[1].state IN
              /\ state.current_block = last.block
              /\ state.phase = compute_phase(config, last.block, state.tokens_received)
              /\ config.start_block <= last.block /\ last.block < config.end_block
                    /\ state.tokens_received # "Received" =>
                    /\ last.validated = "AuctionNotActive"
                    /\ last.outcome.tag = "Failed"
                    /\ Sent(last.trace) = {}

(* C37 witness: a SubmitBid inside [start_block, end_block) that read a
   token status other than Received was rejected with AuctionNotActive *)
C37_Witness ==
    /\ last.op = "execute"
    /\ last.intent.kind = "SubmitBid"
    /\ config.start_block <= last.block
    /\ last.block < config.end_block
    /\ is_some(last.read)
    /\ last.read[1].state.tokens_received = "NotReceived"
    /\ last.validated = "AuctionNotActive"

(* C29: an Exit at a block < end_block always starts by fetching a
   checkpoint and leaves final_checkpoint as it was; an Exit at a block >=
   end_block fetches a checkpoint exactly when none is cached, and the
   checkpoint it gets is cached; once final_checkpoint is cached, every Exit
   at a block >= end_block and every Claim issues no checkpoint RPC, leaves the
   cached checkpoint in place and hands exactly it to the validator. *)
C29_CheckpointSource ==
    [][ last'.op = "execute" =>
          LET is_exit == last'.intent.kind = "Exit"
              is_claim == last'.intent.kind = "Claim"
              past_end_block == last'.block >= config.end_block
              fetches == Calls(last'.trace, "fetch_checkpoint")
              answered == fetches /\ Len(last'.trace) > 1
          IN  /\ is_exit /\ ~past_end_block =>
                    /\ last'.trace[1] = "fetch_checkpoint"
                    /\ cache'.final_checkpoint = cache.final_checkpoint
              /\ is_exit /\ past_end_block =>
                    /\ fetches <=> is_none(cache.final_checkpoint)
                    /\ fetches => last'.trace[1] = "fetch_checkpoint"
                    /\ answered => is_some(cache'.final_checkpoint)
                    /\ is_some(last'.read) =>
                          cache'.final_checkpoint = Some(last'.read[1].state.checkpoint)
              /\ is_some(cache.final_checkpoint)
                    /\ ((is_exit /\ past_end_block) \/ is_claim) =>
                    /\ ~fetches
                    /\ cache'.final_checkpoint = cache.final_checkpoint
                    /\ is_some(last'.read) =>
                          last'.read[1].state.checkpoint = cache.final_checkpoint[1] ]_vars

(* C29 witness: a second Exit past end_block reused the checkpoint the first
   one had cached, and went on to validation without a checkpoint RPC *)
C29_Witness ==
    /\ last.op = "execute"
    /\ last.calls = 2
    /\ last.intent.kind = "Exit"
    /\ last.block >= config.end_block
    /\ ~Calls(last.trace, "fetch_checkpoint")
    /\ is_some(last.read)
    /\ last.read[1].state.checkpoint = cache.final_checkpoint[1]

(* C30 as stated: once Received is cached no SubmitBid issues the
   token-balance RPC and once Graduated is cached no Exit or Claim issues the
   graduation RPC; while the fact is not cached every SubmitBid issues the
   token-balance RPC and every Exit and Claim issues the graduation RPC. *)
C30_EveryIntentIssuesUncachedRead ==
    [][ last'.op = "execute" =>
          LET kind == last'.intent.kind
              reads_tokens == Calls(last'.trace, "fetch_token_balance")
              reads_graduation == Calls(last'.trace, "fetch_graduation")
          IN  /\ kind = "SubmitBid" =>
                    (reads_tokens <=> needs_token_balance(cache))
              /\ kind \in {"Exit", "Claim"} =>
                    (reads_graduation <=> needs_graduation(cache)) ]_vars

(* C30: once Received is cached no SubmitBid issues the token-balance RPC and
   once Graduated is cached no Exit or Claim issues the graduation RPC; the
   facts become cached only by such a read; while the fact is not cached,
   every SubmitBid whose checkpoint read answered issues the token-balance
   RPC next, every Exit whose checkpoint read answered issues the graduation
   RPC next, and every Claim issues the graduation RPC first.  An intent whose
   checkpoint read fails ends there and issues no further RPC. *)
C30_CacheGatesReads ==
    [][ last'.op = "execute" =>
          LET kind == last'.intent.kind
              trace == last'.trace
              reads_tokens == Calls(trace, "fetch_token_balance")
              reads_graduation == Calls(trace, "fetch_graduation")
              checkpoint_failed == trace = <<"fetch_checkpoint">>
          IN  /\ needs_token_balance(cache) <=> cache.tokens_received # "Received"
              /\ needs_graduation(cache) <=> cache.graduated # "Graduated"
              /\ ~needs_token_balance(cache) => ~reads_tokens
              /\ ~needs_graduation(cache) => ~reads_graduation
              /\ cache'.tokens_received # cache.tokens_received => reads_tokens
              /\ cache'.graduated # cache.graduated => reads_graduation
              /\ kind = "SubmitBid" /\ needs_token_balance(cache) =>
                    \/ checkpoint_failed
                    \/ /\ trace[1] = "fetch_checkpoint"
                       /\ trace[2] = "fetch_token_balance"
              /\ kind = "Exit" /\ needs_graduation(cache) =>
                    \/ checkpoint_failed
                    \/ /\ trace[1] = "fetch_checkpoint"
                       /\ trace[2] = "fetch_graduation"
                    \/ trace[1] = "fetch_graduation"
              /\ kind = "Exit" /\ trace[1] = "fetch_graduation" =>
                    is_some(cache.final_checkpoint)
              /\ kind = "Claim" /\ needs_graduation(cache) =>
                    trace[1] = "fetch_graduation"
              /\ checkpoint_failed => ~reads_tokens /\ ~reads_graduation ]_vars

(* C30 witness: a second SubmitBid found Received cached and went from the
   checkpoint read to validation without a token-balance RPC *)
C30_Witness ==
    /\ last.op = "execute"
    /\ last.calls = 2
    /\ last.intent.kind = "SubmitBid"
    /\ cache.tokens_received = "Received"
    /\ last.trace[1] = "fetch_checkpoint"
    /\ Len(last.trace) > 1
    /\ last.trace[2] = "validate_submit_bid"

----------------------------------------------------------------------------
(* SpecTicks: compute_prev_tick_price over every tick list and price *)

InitTicks ==
    /\ config \in Configs
    /\ owner = AgentAddress
    /\ tracked_bids = << >>
    /\ cache = ExecutorCache_new
    /\ pc = "input"
    /\ \E t \in TickLists, p \in InputPrices :
          last = [op |-> "input", ticks |-> t, max_price |-> p, result |-> Ok(0),
                  reads |-> 0]
    /\ hist = << >>
    /\ Idle

(* the walk, or the transport error of one of its reads *)
ComputePrevTickPrice ==
    /\ pc = "input"
    /\ "ticks" \in DOMAIN last
    /\ LET reads == compute_prev_tick_price_reads(config, last.max_price, last.ticks)
       IN  \/ last' = [last EXCEPT
                         !.op = "compute_prev_tick_price",
                         !.result = compute_prev_tick_price(config, last.max_price,
                                                            last.ticks),
                         !.reads = reads]
           \/ \E failed \in 1 .. reads :
                 last' = [last EXCEPT !.op = "compute_prev_tick_price",
                                      !.result = StateError, !.reads = failed]
    /\ pc' = "done"
    /\ UNCHANGED << config, owner, tracked_bids, cache, hist >>
    /\ IdleUnchanged

NextTicks == ComputePrevTickPrice

SpecTicks == InitTicks /\ [][NextTicks]_vars

Initialized(ticks) == {r \in TickPrices : ticks.next[r] # 0}

(* C20: for a valid max_price p and a well-formed tick list,
   compute_prev_tick_price returns q with floor_price <= q < p, q on the
   tick lattice, and ticks(q).next >= p or ticks(q).next = q: the highest
   initialized tick strictly below p. *)
C20_PrevTickIsHighestBelow ==
    /\ last.op = "compute_prev_tick_price"
    /\ last.result.ok
    /\ last.max_price > config.floor_price
    /\ last.max_price <= config.max_bid_price
    /\ last.max_price % config.tick_spacing = 0
    =>  LET q == last.result.val
            p == last.max_price
        IN  /\ config.floor_price <= q
            /\ q < p
            /\ q % config.tick_spacing = 0
            /\ \/ last.ticks.next[q] >= p
               \/ last.ticks.next[q] = q
            /\ q \in Initialized(last.ticks)
            /\ \A r \in Initialized(last.ticks) : r < p => r <= q

(* every tick is initialized and nextActiveTickPrice is the floor: for the
   highest price the walk goes one tick up from the floor. *)
C20_Witness ==
    /\ last.op = "compute_prev_tick_price"
    /\ last.max_price = HighPrice
    /\ last.ticks.next_active = FloorPrice
    /\ Initialized(last.ticks) = TickPrices
    /\ last.result = Ok(LowPrice)


----------------------------------------------------------------------------
(* SpecHints: compute_exit_hints over every checkpoint list and bid price *)

(* MAX_BLOCK_NUMBER, the next pointer of the last checkpoint *)
MAX_BLOCK_NUMBER == MaxBlock + 1

(* the on-chain checkpoint list as seen from a bid's start block: the blocks
   that have a checkpoint, the lowest being the start block, and the
   clearing price of each *)
CheckpointLists ==
    UNION { [blocks : {S}, price : [S -> {FloorPrice, LowPrice, HighPrice}]] :
            S \in (SUBSET BlockNumbers) \ {{}} }

(* checkpoints(block) *)
checkpoints(cps, b) ==
    [clearingPrice |-> cps.price[b],
     next |-> IF \E n \in cps.blocks : n > b
              THEN CHOOSE n \in cps.blocks :
                      n > b /\ \A m \in cps.blocks : m > b => n <= m
              ELSE MAX_BLOCK_NUMBER]

(* faulty variant: the first walk only stops at a clearing price above the
   bid's price *)
compute_exit_hints_stop_above(bid, cps) ==
    LET RECURSIVE first_walk(_, _)
        first_walk(last_fully_filled, current_cp) ==
            IF current_cp.next = MAX_BLOCK_NUMBER
            THEN [last_fully_filled |-> last_fully_filled, current_cp |-> current_cp]
            ELSE LET next_cp == checkpoints(cps, current_cp.next) IN
                 IF next_cp.clearingPrice > bid.max_price
                 THEN [last_fully_filled |-> last_fully_filled,
                       current_cp |-> current_cp]
                 ELSE first_walk(current_cp.next, next_cp)
        RECURSIVE second_walk(_)
        second_walk(current_cp) ==
            IF current_cp.next = MAX_BLOCK_NUMBER THEN None
            ELSE LET next_cp == checkpoints(cps, current_cp.next) IN
                 IF next_cp.clearingPrice > bid.max_price THEN Some(current_cp.next)
                 ELSE second_walk(next_cp)
        a == first_walk(bid.start_block, checkpoints(cps, bid.start_block))
    IN  Ok([last_fully_filled_checkpoint_block |-> a.last_fully_filled,
            outbid_block |-> second_walk(a.current_cp)])

(* faulty variant: the second walk starts again from the bid's start block *)
exit_hints_run_restart(bid, cps) ==
    LET RECURSIVE first_walk(_, _, _)
        first_walk(last_fully_filled, current_cp, reads) ==
            IF current_cp.next = MAX_BLOCK_NUMBER
            THEN [last_fully_filled |-> last_fully_filled, current_cp |-> current_cp,
                  reads |-> reads]
            ELSE LET next_cp == checkpoints(cps, current_cp.next) IN
                 IF next_cp.clearingPrice >= bid.max_price
                 THEN [last_fully_filled |-> last_fully_filled,
                       current_cp |-> current_cp, reads |-> reads + 1]
                 ELSE first_walk(current_cp.next, next_cp, reads + 1)
        RECURSIVE second_walk(_, _)
        second_walk(current_cp, reads) ==
            IF current_cp.next = MAX_BLOCK_NUMBER
            THEN [outbid_block |-> None, reads |-> reads]
            ELSE LET next_cp == checkpoints(cps, current_cp.next) IN
                 IF next_cp.clearingPrice > bid.max_price
                 THEN [outbid_block |-> Some(current_cp.next), reads |-> reads + 1]
                 ELSE second_walk(next_cp, reads + 1)
        start_cp == checkpoints(cps, bid.start_block)
        a == first_walk(bid.start_block, start_cp, 2)
        b == second_walk(start_cp, a.reads)
    IN  [hints |-> [last_fully_filled_checkpoint_block |-> a.last_fully_filled,
                    outbid_block |-> b.outbid_block],
         reads |-> b.reads]

(* compute_exit_hints with the number of contract reads it makes:
   MAX_BLOCK_NUMBER and checkpoints(bid.start_block), then one checkpoints
   read per turn of either loop *)
exit_hints_run(bid, cps) ==
    LET RECURSIVE first_walk(_, _, _)
        first_walk(last_fully_filled, current_cp, reads) ==
            IF current_cp.next = MAX_BLOCK_NUMBER
            THEN [last_fully_filled |-> last_fully_filled, current_cp |-> current_cp,
                  reads |-> reads]
            ELSE LET next_cp == checkpoints(cps, current_cp.next) IN
                 IF next_cp.clearingPrice >= bid.max_price
                 THEN [last_fully_filled |-> last_fully_filled,
                       current_cp |-> current_cp, reads |-> reads + 1]
                 ELSE first_walk(current_cp.next, next_cp, reads + 1)
        RECURSIVE second_walk(_, _)
        second_walk(current_cp, reads) ==
            IF current_cp.next = MAX_BLOCK_NUMBER
            THEN [outbid_block |-> None, reads |-> reads]
            ELSE LET next_cp == checkpoints(cps, current_cp.next) IN
                 IF next_cp.clearingPrice > bid.max_price
                 THEN [outbid_block |-> Some(current_cp.next), reads |-> reads + 1]
                 ELSE second_walk(next_cp, reads + 1)
        a == first_walk(bid.start_block, checkpoints(cps, bid.start_block), 2)
        b == second_walk(a.current_cp, a.reads)
    IN  [hints |-> [last_fully_filled_checkpoint_block |-> a.last_fully_filled,
                    outbid_block |-> b.outbid_block],
         reads |-> b.reads]

compute_exit_hints(bid, cps) == Ok(exit_hints_run(bid, cps).hints)

InitHints ==
    /\ config \in Configs
    /\ owner = AgentAddress
    /\ tracked_bids = << >>
    /\ cache = ExecutorCache_new
    /\ pc = "input"
    /\ \E cps \in CheckpointLists, p \in BidPrices :
          last = [op |-> "input", cps |-> cps,
                  bid |-> [max_price |-> p,
                           start_block |-> CHOOSE b \in cps.blocks :
                                              \A m \in cps.blocks : b <= m],
                  result |-> Ok(0), reads |-> 0]
    /\ hist = << >>
    /\ Idle

(* the two walks, or the transport error of one of their reads *)
ComputeExitHints ==
    /\ pc = "input"
    /\ "cps" \in DOMAIN last
    /\ LET reads == exit_hints_run(last.bid, last.cps).reads
       IN  \/ last' = [last EXCEPT
                         !.op = "compute_exit_hints",
                         !.result = compute_exit_hints(last.bid, last.cps),
                         !.reads = reads]
           \/ \E failed \in 1 .. reads :
                 last' = [last EXCEPT !.op = "compute_exit_hints",
                                      !.result = StateError, !.reads = failed]
    /\ pc' = "done"
    /\ UNCHANGED << config, owner, tracked_bids, cache, hist >>
    /\ IdleUnchanged

SpecHints == InitHints /\ [][ComputeExitHints]_vars

(* SpecWalks: either list walk on any well-formed list *)
InitWalks == InitTicks \/ InitHints

NextWalks == ComputePrevTickPrice \/ ComputeExitHints

SpecWalks == InitWalks /\ [][NextWalks]_vars

(* C38: on every well-formed list compute_prev_tick_price and
   compute_exit_hints return, after at most as many contract reads as the
   list has entries plus two; a call that ends in a transport error has made
   no more reads than that either. *)
C38_WalksAreBounded ==
    /\ last.op = "compute_prev_tick_price" =>
          /\ last.reads <= Cardinality(Initialized(last.ticks)) + 2
          /\ last.result.ok => last.reads >= 2
    /\ last.op = "compute_exit_hints" =>
          /\ last.reads <= Cardinality(last.cps.blocks) + 2
          /\ last.result.ok => last.reads >= 2

(* C38 witness: on a list of MaxBlock + 1 checkpoints that never reach the
   bid's price, compute_exit_hints read every checkpoint once, after
   MAX_BLOCK_NUMBER *)
C38_Witness ==
    /\ last.op = "compute_exit_hints"
    /\ last.result.ok
    /\ last.cps.blocks = BlockNumbers
    /\ last.result.val.outbid_block = None
    /\ last.result.val.last_fully_filled_checkpoint_block = MaxBlock
    /\ last.reads = Cardinality(last.cps.blocks) + 1

(* C21: last_fully_filled_checkpoint_block is the last checkpoint block
   before the first successor of bid.start_block whose clearing price is
   >= bid.max_price (the last block of the list when there is none);
   outbid_block is the first checkpoint after it whose clearing price is
   > bid.max_price, or None when there is none; when present it comes
   strictly after last_fully_filled_checkpoint_block and no checkpoint
   strictly between them has a clearing price > bid.max_price. *)
C21_ExitHints ==
    last.op = "compute_exit_hints" /\ last.result.ok =>
        LET S == last.cps.blocks
            price == last.cps.price
            p == last.bid.max_price
            start == last.bid.start_block
            lff == last.result.val.last_fully_filled_checkpoint_block
            outbid == last.result.val.outbid_block
            Stops == {b \in S : b > start /\ price[b] >= p}
            Above == {b \in S : b > lff /\ price[b] > p}
        IN  /\ lff \in S
            /\ \A b \in Stops : lff < b
            /\ \A b \in S : b > lff => \E c \in Stops : c <= b
            /\ (Above = {} <=> outbid = None)
            /\ (outbid # None =>
                  /\ outbid[1] \in Above
                  /\ outbid[1] > lff
                  /\ \A b \in S : lff < b /\ b < outbid[1] => price[b] <= p)

(* the bid was filled through one later checkpoint, met its own price at
   the next, and was outbid only at the one after that. *)
C21_Witness ==
    /\ last.op = "compute_exit_hints"
    /\ last.result.ok
    /\ last.result.val.last_fully_filled_checkpoint_block > last.bid.start_block
    /\ last.result.val.outbid_block # None
    /\ \E b \in last.cps.blocks :
          /\ b > last.result.val.last_fully_filled_checkpoint_block
          /\ b < last.result.val.outbid_block[1]
          /\ last.cps.price[b] = last.bid.max_price


----------------------------------------------------------------------------
(* prepare_bid and validation (SpecClient) *)

(* C22: prepare_bid performs no validation: it never returns a
   ValidationError, neither from its own checks nor from its tick-hint
   computation. *)
C22_PrepareBidNeverValidationError ==
    last.op = "prepare_bid" /\ ~last.result.ok =>
        last.result.val.kind # "Validation"


----------------------------------------------------------------------------
(* Receipts (SpecClient) *)

ExpectedEvent(op) == IF op = "submit_bid" THEN "BidSubmitted" ELSE "BidExited"

Decodable(logs, ev) == \E i \in 1 .. Len(logs) : logs[i].ev = ev

(* C23: in submit_bid, exit_bid and exit_partially_filled a receipt with
   failed status yields Reverted even when its logs hold the expected event,
   and a receipt with successful status but without the expected event
   yields MissingBidSubmittedEvent or MissingBidExitedEvent; both return no
   result. *)
C23_StatusBeforeLogs ==
    /\ last.op \in {"submit_bid", "exit_bid", "exit_partially_filled"}
    /\ last.receipt.stage = "receipt"
    =>  /\ (~last.receipt.status =>
              last.result = Err("Transaction", "Reverted"))
        /\ (last.receipt.status
              /\ ~Decodable(last.receipt.logs, ExpectedEvent(last.op)) =>
              last.result = Err("Transaction",
                                IF last.op = "submit_bid"
                                THEN "MissingBidSubmittedEvent"
                                ELSE "MissingBidExitedEvent"))
        /\ (last.receipt.status
              /\ Decodable(last.receipt.logs, ExpectedEvent(last.op)) =>
              last.result.ok)

(* a reverted submit_bid whose receipt nevertheless carried a BidSubmitted
   log *)
C23_Witness ==
    /\ last.op = "submit_bid"
    /\ last.receipt.stage = "receipt"
    /\ ~last.receipt.status
    /\ Decodable(last.receipt.logs, "BidSubmitted")
    /\ last.result = Err("Transaction", "Reverted")
    /\ tracked_bids = hist.initial


----------------------------------------------------------------------------
(* Building the block stream (Spec) *)

(* C24: into_stream returns the subscription stream when subscribing
   succeeds and does not call the polling watcher then; it falls back to
   the watcher exactly when subscribing fails with PubsubUnavailable; any
   other subscribe error, and a failure to set up the watcher after the
   fallback, is returned as Err(BlockStreamError::Transport) with no
   stream. *)
C24_FallbackOnlyOnPubsubUnavailable ==
    last.op = "into_stream" =>
        LET polled == \E i \in 1 .. Len(last.calls) :
                         last.calls[i] = "watch_full_blocks"
            failed == /\ stream = NoStream
                      /\ pc = "returned"
                      /\ ret = [tag |-> "Err",
                                error |-> [kind |-> "BlockStream", err |-> "Transport"]]
        IN  /\ last.calls[1] = "subscribe_blocks"
            /\ (polled <=> last.subscribed = "PubsubUnavailable")
            /\ (last.subscribed = "Ok" =>
                  stream = [mode |-> "subscription", items |-> 0] /\ pc = "await")
            /\ (last.subscribed = "PubsubUnavailable" /\ last.watched = "Ok" =>
                  stream = [mode |-> "polling", items |-> 0] /\ pc = "await")
            /\ (last.subscribed = "PubsubUnavailable" /\ last.watched # "Ok" => failed)
            /\ (last.subscribed \notin {"Ok", "PubsubUnavailable"} => failed)

(* subscribing failed with another transport error while the polling
   watcher would have worked: no stream, and the watcher was not asked. *)
C24_Witness ==
    /\ last.op = "into_stream"
    /\ last.subscribed = "Other"
    /\ last.watched = "Ok"
    /\ last.calls = <<"subscribe_blocks">>
    /\ pc = "returned"
    /\ stream = NoStream


----------------------------------------------------------------------------
(* Claimed tokens (Spec) *)

Matching(logs, bid_ids) ==
    {i \in 1 .. Len(logs) :
        /\ logs[i].ev = "TokensClaimed"
        /\ logs[i].id \in {bid_ids[k] : k \in 1 .. Len(bid_ids)}}

RECURSIVE TokensFilledOver(_, _)
TokensFilledOver(logs, indices) ==
    IF indices = {} THEN 0
    ELSE LET i == CHOOSE j \in indices : TRUE
         IN  logs[i].tokens_filled + TokensFilledOver(logs, indices \ {i})

(* C25: after a successful claim on ids, result.total_tokens is the sum of
   tokensFilled over the TokensClaimed logs of the receipt whose bidId is
   one of the ids, and the orchestrator's tokens_claimed grows by exactly
   that amount; a receipt with no such log yields
   MissingTokensClaimedEvent. *)
C25_ClaimedTokensAreSummed ==
    [][ last'.op = "intent" /\ last'.executed[Len(last'.executed)].kind = "Claim" =>
          LET ids == last'.executed[Len(last'.executed)].bid_ids
              m == Matching(last'.logs, ids)
          IN  /\ (last'.kind = "TokensClaimed" =>
                    /\ m # {}
                    /\ last'.total = TokensFilledOver(last'.logs, m)
                    /\ tokens_claimed' = tokens_claimed + last'.total
                    /\ \A resp \in TxResponses :
                          resp.stage = "receipt" /\ resp.status
                            /\ Matching(resp.logs, ids) = {}
                          => claim(tracked_bids, [owner |-> owner, bid_ids |-> ids],
                                   resp).result
                               = Err("Transaction", "MissingTokensClaimedEvent"))
              /\ (last'.kind # "TokensClaimed" => tokens_claimed' = tokens_claimed)
      ]_vars

(* a claim of bid 1 whose receipt held a TokensClaimed log of bid 1 and one
   of another bid: only the first is counted, on top of an earlier claim. *)
C25_Witness ==
    /\ last.op = "intent"
    /\ last.kind = "TokensClaimed"
    /\ Len(last.logs) = 2
    /\ \E i \in 1 .. 2 : last.logs[i].ev = "TokensClaimed" /\ last.logs[i].id # 1
    /\ last.total = 1
    /\ tokens_claimed > last.total


----------------------------------------------------------------------------
(* SpecLife: one run whose strategy submits a bid, and later exits and
   claims bid 1 *)

LifeItems == 3

LifeLists == {<< >>, <<SubmitBid(HighPrice, 1)>>, <<Exit(1), Claim(<<1>>)>>}

HandleBlockLife == HandleBlockOf(LifeLists, LifeItems)

NextLife ==
    \/ IntoStream
    \/ RunStreamEnded
    \/ RunStreamFailed
    \/ HandleBlockLife
    \/ ExecuteIntent

SpecLife == Init /\ [][NextLife]_vars

(* C27: when the run has submitted a bid, later exited it and claimed its
   tokens, the next block >= claim_block that the stream delivers ends the
   run with reason AllBidsProcessed. *)
C27_ClaimedBidCompletesRun ==
    [][ /\ last'.op = "handle_block"
        /\ hist.life = "claimed"
        /\ block' >= config.claim_block
        =>  /\ pc' = "returned"
            /\ ret'.tag = "Ok"
            /\ ret'.result.reason = "AllBidsProcessed" ]_vars

----------------------------------------------------------------------------
(* The phase the orchestrator derives for a block (Spec) *)

LastOf(seq) == seq[Len(seq)]

(* C31: only a SubmitBid intent can change cache.tokens_received, and only
   to Received after a token-balance read: Exit, Claim and Skip intents,
   block handling and every other step leave it as it was; so while Received
   has not been read, the phase handed to the strategy and tested by
   is_complete is PreTokens for every block >= start_block, blocks >=
   end_block and >= claim_block included, and the run is not completed at
   such a block. *)
C31_PreTokensUntilSubmitReadsReceived ==
    [][ /\ cache'.tokens_received # cache.tokens_received =>
              /\ last'.op = "intent"
              /\ LastOf(last'.executed).kind = "SubmitBid"
              /\ Calls(last'.trace, "fetch_token_balance")
              /\ cache'.tokens_received = "Received"
        /\ last'.op = "handle_block" /\ cache.tokens_received # "Received"
              /\ block' >= config.start_block =>
              /\ last'.phase = Phase("PreTokens", 0)
              /\ last'.evaluated = 1
              /\ pc' # "returned" ]_vars

(* C31 witness: after an Exit was executed with success, a block at or past
   claim_block is still handled in PreTokens *)
C31_Witness ==
    /\ last.op = "handle_block"
    /\ block >= config.claim_block
    /\ hist.runs = 1
    /\ hist.exited >= 1
    /\ cache.tokens_received # "Received"
    /\ last.phase.name = "PreTokens"

PhaseRank(phase) ==
    CASE phase.name = "PreStart" -> 0
      [] phase.name = "PreTokens" -> 1
      [] phase.name = "Active" -> 2
      [] phase.name = "Ended" -> 3
      [] phase.name = "Claimable" -> 4

(* C36: when a block is handled after a block with a smaller number in the
   same run, the phase handed to the strategy is not earlier than the phase of
   that block in the order PreStart, PreTokens, Active, Ended, Claimable,
   whatever intents were executed in between. *)
C36_PhaseNeverMovesBack ==
    [][ /\ last'.op = "handle_block"
        /\ last.op \in {"handle_block", "intent"}
        /\ block' > block
        => PhaseRank(last'.phase) >= PhaseRank(last.phase) ]_vars

(* C36 witness: in a run that submitted its bid in an earlier block, and so
   read Received there, a later block is handled in Claimable *)
C36_Witness ==
    /\ last.op = "handle_block"
    /\ hist.runs = 1
    /\ hist.items = LifeItems
    /\ hist.life # "none"
    /\ block >= config.claim_block
    /\ last.phase.name = "Claimable"

----------------------------------------------------------------------------
(* Blocks and intents that do nothing (Spec) *)

(* C34: a block for which the strategy returns an empty list or only Skip
   executes no intent, so it issues no RPC and no transaction, and leaves the
   cache, tracked_bids and the counters as they were; any other list is
   executed; a Skip executed among other intents yields Skipped without an RPC
   or a transaction and changes neither the cache, tracked_bids nor a
   counter. *)
C34_SkipChangesNothing ==
    [][ /\ last'.op = "handle_block" /\ last'.evaluated = 1 =>
              IF last'.returned = << >> \/ all_skip(last'.returned)
              THEN /\ pc' = "await"
                   /\ intents' = << >>
                   /\ last'.executed = << >>
                   /\ last'.trace = << >>
                   /\ cache' = cache
                   /\ tracked_bids' = tracked_bids
                   /\ bids_submitted' = bids_submitted
                   /\ bids_exited' = bids_exited
                   /\ tokens_claimed' = tokens_claimed
              ELSE /\ pc' = "exec"
                   /\ intents' = last'.returned
        /\ last'.op = "intent" /\ LastOf(last'.executed) = Skip =>
              /\ last'.result = "ok"
              /\ last'.kind = "Skipped"
              /\ last'.trace = << >>
              /\ cache' = cache
              /\ tracked_bids' = tracked_bids
              /\ bids_submitted' = bids_submitted
              /\ bids_exited' = bids_exited
              /\ tokens_claimed' = tokens_claimed
              /\ ret' = ret ]_vars

(* C34 witness: a Skip that followed a submitted bid in the same list was
   executed and the run went on *)
C34_Witness ==
    /\ last.op = "intent"
    /\ last.returned = <<SubmitBid(HighPrice, 1), Skip>>
    /\ last.executed = last.returned
    /\ last.kind = "Skipped"
    /\ bids_submitted = 1
    /\ pc = "await"

----------------------------------------------------------------------------
(* SpecTwins: the orchestrator's and the executor's pipelines side by side.
   Either component executes an intent on the shared client and cache; the
   other component's possible executions of the same intent, at the same
   block, from the same cache and tracked_bids, are looked up for one with the
   same steps, the same cache and tracked_bids afterwards and the same result
   or error. *)

(* what IntentExecutor::execute makes of a pipeline's Result *)
AsOutcome(intent, result) ==
    IF result.ok THEN Success(result.val) ELSE Failed(intent, result.val)

(* an execution as the comparison sees it: the steps taken, the validator run,
   the cache and tracked_bids left behind, and the outcome *)
Execution(c, tb, outcome, validated, trace) ==
    [cache |-> c, tracked_bids |-> tb, outcome |-> outcome,
     validated |-> validated, trace |-> trace]

ExecutorExecutions(intent, blk) ==
    { Execution(o.cache, o.tracked_bids, o.outcome, o.validated, o.trace) :
      o \in execute(cache, tracked_bids, config, owner, intent, blk) }

OrchestratorExecutions(intent, blk) ==
    { Execution(o.cache, o.tracked_bids, AsOutcome(intent, o.result), o.validated,
                o.trace) :
      o \in resolve_and_execute(cache, tracked_bids, config, owner, intent, blk) }

TwinOf(op, intent, blk, mine, theirs) ==
    \E o \in mine :
       /\ cache' = o.cache
       /\ tracked_bids' = o.tracked_bids
       /\ last' = [op |-> op, calls |-> last.calls + 1, intent |-> intent,
                   block |-> blk, outcome |-> o.outcome, trace |-> o.trace,
                   twin |-> o \in theirs]

ExecutorTwin ==
    /\ pc = "executor"
    /\ last.calls < MaxCalls
    /\ \E intent \in ReadIntents, blk \in BlockNumbers :
          TwinOf("execute", intent, blk, ExecutorExecutions(intent, blk),
                 OrchestratorExecutions(intent, blk))
    /\ UNCHANGED << config, owner, pc, hist >>
    /\ IdleUnchanged

OrchestratorTwin ==
    /\ pc = "executor"
    /\ last.calls < MaxCalls
    /\ \E intent \in ReadIntents, blk \in BlockNumbers :
          TwinOf("resolve_and_execute", intent, blk,
                 OrchestratorExecutions(intent, blk), ExecutorExecutions(intent, blk))
    /\ UNCHANGED << config, owner, pc, hist >>
    /\ IdleUnchanged

NextTwins == ExecutorTwin \/ OrchestratorTwin

SpecTwins == InitExec /\ [][NextTwins]_vars

(* C39: every execution of a SubmitBid, Exit or Claim intent by
   IntentExecutor::execute has an execution by
   Orchestrator::resolve_and_execute of the same intent at the same block from
   the same cache and tracked_bids that makes the same reads, validations and
   transactions in the same order, leaves the same cache and tracked_bids, and
   gives the same result or error; and the other way round. *)
C39_PipelinesAgree ==
    last.op \in {"execute", "resolve_and_execute"} => last.twin

(* C39 witness: after a first intent had filled the cache, the orchestrator
   claimed with success and the executor has the same execution *)
C39_Witness ==
    /\ last.op = "resolve_and_execute"
    /\ last.calls = 2
    /\ last.intent.kind = "Claim"
    /\ last.outcome.tag = "Success"
    /\ Calls(last.trace, "claimTokens")
    /\ last.twin

====
